---- MODULE Spec2Model ----
(***************************************************************************)
(* Worker orchestration core of life-memory-bank: the line-delimited event *)
(* protocol of the four worker programs                                    *)
(*   src/voice-mcp/python/whisper_worker.py                                *)
(*   src/voice-mcp/python/whisper_streaming_worker.py                      *)
(*   src/voice-mcp/python/openai_transcription_worker.py                   *)
(*   src/python/ai_worker.py                                               *)
(* One run of one worker process is one behaviour: Init picks the program, *)
(* its command line and its input files; the actions are the steps of the  *)
(* main flow of control, of the reporter thread and of signal delivery.    *)
(***************************************************************************)
EXTENDS Integers, Sequences, FiniteSets, TLC

VARIABLES
    worker,             \* which program this process runs
    command,            \* streaming worker: args.command
    pc,                 \* position of the main flow of control
    out,                \* the lines printed on stdout, in order
    exit_code,          \* Running until the process has exited
    model_name,         \* args.model
    cuda,               \* torch.cuda.is_available()
    LOADED_MODEL,       \* streaming worker global (line 32)
    LOADED_MODEL_NAME,  \* streaming worker global (line 33)
    load_calls,         \* streaming worker: whisper.load_model calls that returned
    model,              \* streaming worker: what load_model_if_needed returned
    acquired,           \* model cache client: the acquire calls completed so far
    sigints,            \* streaming worker: SIGINTs delivered so far
    audio,              \* single mode: state of --audio-file
    chunk_arg,          \* batch mode: state of --chunk-files
    chunk_files,        \* batch mode: the parsed list
    i,                  \* batch mode: loop index of enumerate(chunk_files)
    output,             \* whether --output was given
    file_size,          \* os.path.getsize of the input file, in bytes
    shutdown_requested, \* whisper_worker global (line 201)
    raised,             \* the exception in flight while a finally block runs
    rp_pc,              \* position of the ProgressReporter thread
    stop_event,         \* ProgressReporter.stop_event
    clock,              \* time.time(), in seconds
    start_time,         \* ProgressReporter.start_time
    wake_at,            \* when the reporter's time.sleep(1.0) ends
    join_at,            \* when thread.join(timeout=1.0) gives up
    api_key,            \* whether a non-empty API key is available
    audio_ms,           \* openai worker: len(audio), the decoded length in ms
    transcription_file, \* openai worker: the file chosen for the upload
    temp_file_to_cleanup, \* openai worker: whether it names the temp file
    tmp_file,           \* openai worker: the temp file on disk
    target_duration,    \* openai worker: the length kept by the Trimmer, in ms
    truncated_size,     \* openai worker: size of the exported temp file
    truncate_calls,     \* openai worker: calls of truncate_audio_file so far
    uploaded,           \* openai worker: the file handed to the backend
    unlink_ok,          \* openai worker: whether os.unlink of the temp file succeeds
    transcript,         \* ai worker: state of the transcript file
    title,              \* ai worker: the title that will be reported
    summary,            \* ai worker: the summary that will be reported
    llm,                \* ai worker: whether the ChatOpenAI client was created
    output_file,        \* the file at --output: "absent", "partial" or "complete"
    save_calls,         \* how many times the output path was opened for writing
    has_segments,       \* whether the backend's response has a segment list
    response,           \* the segment records of the backend's response
    segments,           \* the segments the adapter returns
    confidence,         \* streaming worker: what calculate_confidence returned
    channel,            \* the pieces written to standard output, in order
    unterminated,       \* the threads whose text is written and whose newline is not
    result_long,        \* whether the text of the result event exceeds one chunk
    emit_next,          \* emitter client: the next closing event of the main flow
    ticks               \* emitter client: the reports the reporter thread has made

\* what the command line and the environment fix for the whole run
inputs == <<worker, command, model_name, cuda, audio, chunk_arg, chunk_files,
            output, file_size, api_key, audio_ms, unlink_ok, transcript>>

cacheVars == <<LOADED_MODEL, LOADED_MODEL_NAME, load_calls, model>>
clientVars == <<acquired, sigints>>
streamVars == <<cacheVars, clientVars, i>>
whisperVars == <<shutdown_requested, raised, rp_pc, stop_event, clock, start_time,
                 wake_at, join_at>>

openaiVars == <<transcription_file, temp_file_to_cleanup, tmp_file, target_duration,
                truncated_size, truncate_calls, uploaded>>
aiVars == <<title, summary, llm>>

diskVars == <<output_file, save_calls>>

adapterVars == <<has_segments, response, segments, confidence>>

channelVars == <<channel, unterminated, result_long, emit_next, ticks>>

vars == <<pc, out, exit_code, inputs, streamVars, whisperVars, openaiVars, aiVars,
         diskVars, adapterVars, channelVars>>

----------------------------------------------------------------------------
(* Bounds of the model *)

MaxChunks == 2
MaxClock == 2
MaxAcquires == 3
MaxInterrupts == 2

----------------------------------------------------------------------------
(* Events: one JSON object per line *)

NoId == "-"
NoValue == 0 - 1
Running == 0 - 1

Message(t, p, m, c) == [type |-> t, progress |-> p, message |-> m, chunk_id |-> c]

emit_progress(p, m) == Message("progress", p, m, NoId)
emit_error(m) == Message("error", NoValue, m, NoId)
emit_result == Message("result", NoValue, "", NoId)
emit_cancelled == Message("cancelled", NoValue, "User interrupted", NoId)
emit_chunk_result(c) == Message("chunk_result", NoValue, "", c)
emit_chunk_error(c) == Message("chunk_error", NoValue, "", c)
emit_model_ready == Message("model_ready", NoValue, "", NoId)
emit_model_shutdown == Message("model_shutdown", NoValue, "", NoId)

Emit(events) == out' = out \o events

Exit(code) == pc' = "exit" /\ exit_code' = code

----------------------------------------------------------------------------
(* Inputs *)

ModelNames == {"tiny", "turbo"}
\* a model handle: id tells the objects of different whisper.load_model calls apart
NoModel == [name |-> "None", device |-> "None", id |-> 0]

\* a chunk record of --chunk-files: "nofile" has no "file" key, "missing" names a
\* file that does not exist, "bad_audio" makes model.transcribe raise
ChunkKinds == {"ok", "missing", "bad_audio", "nofile"}
ChunkIds == {"a", NoId}
ChunkInfo == [kind : ChunkKinds, id : ChunkIds]

RECURSIVE SeqsUpTo(_, _)
SeqsUpTo(S, n) ==
    IF n = 0 THEN {<<>>}
    ELSE LET shorter == SeqsUpTo(S, n - 1)
         IN  shorter \cup {Append(s, x) : s \in {t \in shorter : Len(t) = n - 1}, x \in S}

\* chunk_info.get("id", f"chunk_{i}")
ChunkIdOf(info, k) == IF info.id = NoId THEN "chunk_" \o ToString(k) ELSE info.id

Unreadable == 0 - 1

InitCommon ==
    /\ pc = "main"
    /\ out = <<>>
    /\ exit_code = Running
    /\ LOADED_MODEL = NoModel
    /\ LOADED_MODEL_NAME = "None"
    /\ load_calls = 0
    /\ model = NoModel
    /\ acquired = <<>>
    /\ sigints = 0
    /\ i = 0
    /\ shutdown_requested = FALSE
    /\ raised = "none"
    /\ rp_pc = "none"
    /\ stop_event = FALSE
    /\ clock = 0
    /\ start_time = 0
    /\ wake_at = 0
    /\ join_at = 0
    /\ transcription_file = "original"
    /\ temp_file_to_cleanup = FALSE
    /\ tmp_file = "none"
    /\ target_duration = 0
    /\ truncated_size = 0
    /\ truncate_calls = 0
    /\ uploaded = "none"
    /\ title = "" /\ summary = "" /\ llm = FALSE
    /\ output_file = "absent" /\ save_calls = 0
    /\ segments = <<>> /\ confidence = [num |-> 0, den |-> 1]
    /\ channel = <<>> /\ unterminated = {} /\ emit_next = 1 /\ ticks = 0

NoBatchArgs == chunk_arg = "list" /\ chunk_files = <<>>
\* a run whose backend response is not looked into
NoResponse == has_segments = FALSE /\ response = <<>> /\ result_long = FALSE
NoRemoteArgs == api_key = FALSE /\ audio_ms = 0 /\ unlink_ok = TRUE /\ transcript = "none"

InitSingle ==
    /\ InitCommon /\ NoResponse
    /\ worker = "streaming" /\ command = "single"
    /\ model_name \in ModelNames /\ cuda \in BOOLEAN
    /\ audio \in {"noarg", "ok", "missing", "bad_audio"}
    /\ NoBatchArgs /\ NoRemoteArgs
    /\ output \in BOOLEAN /\ file_size = 0

InitBatch ==
    /\ InitCommon /\ NoResponse
    /\ worker = "streaming" /\ command = "batch"
    /\ model_name \in ModelNames /\ cuda \in BOOLEAN
    /\ audio = "ok"
    /\ chunk_arg \in {"absent", "badjson", "list"}
    /\ chunk_files \in (IF chunk_arg = "list" THEN SeqsUpTo(ChunkInfo, MaxChunks) ELSE {<<>>})
    /\ NoRemoteArgs
    /\ output = FALSE /\ file_size = 0

InitWarm ==
    /\ InitCommon /\ NoResponse
    /\ worker = "streaming" /\ command = "warm"
    /\ model_name \in ModelNames /\ cuda \in BOOLEAN
    /\ audio = "ok"
    /\ NoBatchArgs /\ NoRemoteArgs
    /\ output = FALSE /\ file_size = 0

\* a client of the module that calls load_model_if_needed several times in one
\* process; the name of each call is chosen when the call is made
InitCache ==
    /\ InitCommon /\ NoResponse
    /\ worker = "streaming" /\ command = "acquire"
    /\ model_name = "tiny" /\ cuda \in BOOLEAN
    /\ audio = "ok"
    /\ NoBatchArgs /\ NoRemoteArgs
    /\ output = FALSE /\ file_size = 0

----------------------------------------------------------------------------
(* whisper_streaming_worker.py *)

StreamFrame == <<inputs, whisperVars, openaiVars, aiVars, diskVars, adapterVars, channelVars>>

\* main, lines 262-275: dispatch on args.command
StreamMain ==
    /\ worker = "streaming" /\ pc = "main"
    /\ command \in {"single", "batch", "warm"}
    /\ pc' = CASE command = "single" ->
                    (IF audio = "noarg" THEN "main_except" ELSE "single_start")
               [] command = "batch" ->
                    (IF chunk_arg = "list" THEN "batch_start" ELSE "main_except")
               [] OTHER -> "load_check"
    /\ UNCHANGED <<out, exit_code, cacheVars, clientVars, i>>
    /\ UNCHANGED StreamFrame

\* single_chunk_transcribe, line 209
SingleStart ==
    /\ pc = "single_start"
    /\ Emit(<<emit_progress(0, "Starting real-time transcription")>>)
    /\ pc' = "load_check"
    /\ UNCHANGED <<exit_code, cacheVars, clientVars, i>>
    /\ UNCHANGED StreamFrame

\* where load_model_if_needed returns to, and where its exception lands
AfterLoad ==
    CASE command = "single" -> "chunk_start"
      [] command = "batch" -> "batch_loop"
      [] command = "warm" -> "warm_ready"
      [] OTHER -> "acquire_return"
CallerExcept ==
    CASE command = "single" -> "single_except"
      [] command = "batch" -> "batch_except"
      [] command = "warm" -> "warm_except"
      [] OTHER -> "acquire_failed"

\* mutant of LoadCheck: the cache is never consulted
LoadCheckAlways ==
    /\ pc = "load_check"
    /\ Emit(<<emit_progress(10, "Loading Whisper model")>>)
    /\ pc' = "load_model"
    /\ UNCHANGED <<exit_code, cacheVars, clientVars, i>>
    /\ UNCHANGED StreamFrame

\* load_model_if_needed, lines 67-69, and on a hit line 86
LoadCheck ==
    /\ pc = "load_check"
    /\ IF LOADED_MODEL = NoModel \/ LOADED_MODEL_NAME # model_name
       THEN /\ Emit(<<emit_progress(10, "Loading Whisper model")>>)
            /\ pc' = "load_model"
            /\ model' = model
       ELSE /\ pc' = AfterLoad
            /\ model' = LOADED_MODEL
            /\ UNCHANGED out
    /\ UNCHANGED <<exit_code, LOADED_MODEL, LOADED_MODEL_NAME, load_calls, clientVars, i>>
    /\ UNCHANGED StreamFrame

\* lines 72-75
Device == IF cuda /\ model_name \in {"tiny", "base"} THEN "cuda" ELSE "cpu"

\* a cache that forgets its model when a load fails
LoadModelForgetful ==
    /\ pc = "load_model"
    /\ \/ /\ load_calls' = load_calls + 1
          /\ LOADED_MODEL' = [name |-> model_name, device |-> Device, id |-> load_calls + 1]
          /\ LOADED_MODEL_NAME' = model_name
          /\ model' = LOADED_MODEL'
          /\ Emit(<<emit_progress(20, "Model loaded")>>)
          /\ pc' = AfterLoad
       \/ /\ pc' = "load_except"
          /\ LOADED_MODEL' = NoModel
          /\ LOADED_MODEL_NAME' = "None"
          /\ UNCHANGED <<out, load_calls, model>>
    /\ UNCHANGED <<exit_code, clientVars, i>>
    /\ UNCHANGED StreamFrame

\* load_model_if_needed, lines 72-80 and 86: whisper.load_model returns a new
\* object or raises
LoadModel ==
    /\ pc = "load_model"
    /\ \/ /\ load_calls' = load_calls + 1
          /\ LOADED_MODEL' = [name |-> model_name, device |-> Device, id |-> load_calls + 1]
          /\ LOADED_MODEL_NAME' = model_name
          /\ model' = LOADED_MODEL'
          /\ Emit(<<emit_progress(20, "Model loaded")>>)
          /\ pc' = AfterLoad
       \/ /\ pc' = "load_except"
          /\ UNCHANGED <<out, cacheVars>>
    /\ UNCHANGED <<exit_code, clientVars, i>>
    /\ UNCHANGED StreamFrame

\* load_model_if_needed, lines 82-84: emit_error, then re-raise to the caller
LoadExcept ==
    /\ pc = "load_except"
    /\ Emit(<<emit_error("Failed to load model")>>)
    /\ pc' = CallerExcept
    /\ UNCHANGED <<exit_code, cacheVars, clientVars, i>>
    /\ UNCHANGED StreamFrame

\* the file transcribe_chunk_fast is called on
CurrentKind == IF command = "single" THEN audio ELSE chunk_files[i + 1].kind

\* transcribe_chunk_fast, lines 110-114
ChunkStart ==
    /\ pc = "chunk_start"
    /\ Emit(<<emit_progress(30, "Processing chunk")>>)
    /\ pc' = IF CurrentKind = "missing" THEN "chunk_except" ELSE "chunk_call"
    /\ UNCHANGED <<exit_code, cacheVars, clientVars, i>>
    /\ UNCHANGED StreamFrame

\* transcribe_chunk_fast, lines 119-162: model.transcribe returns or raises
ChunkCall ==
    /\ pc = "chunk_call"
    /\ IF CurrentKind = "ok"
       THEN /\ Emit(<<emit_progress(80, "Transcription completed"),
                      emit_progress(90, "Processing complete")>>)
            /\ pc' = IF command = "single" THEN "single_result" ELSE "batch_result"
       ELSE /\ pc' = "chunk_except"
            /\ UNCHANGED out
    /\ UNCHANGED <<exit_code, cacheVars, clientVars, i>>
    /\ UNCHANGED StreamFrame

\* transcribe_chunk_fast, lines 164-166: emit_error, then re-raise to the caller
ChunkExcept ==
    /\ pc = "chunk_except"
    /\ Emit(<<emit_error("Chunk transcription failed")>>)
    /\ pc' = IF command = "single" THEN "single_except" ELSE "batch_item_except"
    /\ UNCHANGED <<exit_code, cacheVars, clientVars, i>>
    /\ UNCHANGED StreamFrame

\* single_chunk_transcribe, lines 218-224
SingleResult ==
    /\ pc = "single_result"
    /\ Emit(<<emit_progress(100, "Transcription complete"), emit_result>>)
    /\ pc' = "main_return"
    /\ UNCHANGED <<exit_code, cacheVars, clientVars, i>>
    /\ UNCHANGED StreamFrame

\* single_chunk_transcribe, lines 226-227: the exception is swallowed
SingleExcept ==
    /\ pc = "single_except"
    /\ Emit(<<emit_error("Single chunk transcription failed")>>)
    /\ pc' = "main_return"
    /\ UNCHANGED <<exit_code, cacheVars, clientVars, i>>
    /\ UNCHANGED StreamFrame

\* batch_transcribe_chunks, line 172
BatchStart ==
    /\ pc = "batch_start"
    /\ Emit(<<emit_progress(0, "Starting batch transcription")>>)
    /\ pc' = "load_check"
    /\ UNCHANGED <<exit_code, cacheVars, clientVars, i>>
    /\ UNCHANGED StreamFrame

\* line 183: 30 + (i * 60 // total_chunks)
BatchProgress(k, total_chunks) == 30 + ((k * 60) \div total_chunks)

\* batch_transcribe_chunks, lines 177-183: the loop head, chunk_info["file"]
\* (a KeyError here is outside the per-item try), and the per-item progress
BatchLoop ==
    /\ pc = "batch_loop"
    /\ IF i >= Len(chunk_files)
       THEN /\ pc' = "batch_done"
            /\ UNCHANGED out
       ELSE IF chunk_files[i + 1].kind = "nofile"
       THEN /\ pc' = "batch_except"
            /\ UNCHANGED out
       ELSE /\ Emit(<<emit_progress(BatchProgress(i, Len(chunk_files)), "Processing chunk i/N")>>)
            /\ pc' = "chunk_start"
    /\ UNCHANGED <<exit_code, cacheVars, clientVars, i>>
    /\ UNCHANGED StreamFrame

\* batch_transcribe_chunks, lines 188-193
BatchResult ==
    /\ pc = "batch_result"
    /\ Emit(<<emit_chunk_result(ChunkIdOf(chunk_files[i + 1], i))>>)
    /\ i' = i + 1
    /\ pc' = "batch_loop"
    /\ UNCHANGED <<exit_code, cacheVars, clientVars>>
    /\ UNCHANGED StreamFrame

\* mutant of BatchItemExcept: the per-item handler reports the chunk and then
\* abandons the rest of the list
BatchItemExceptAborts ==
    /\ pc = "batch_item_except"
    /\ Emit(<<emit_chunk_error(ChunkIdOf(chunk_files[i + 1], i))>>)
    /\ i' = i + 1
    /\ pc' = "main_return"
    /\ UNCHANGED <<exit_code, cacheVars, clientVars>>
    /\ UNCHANGED StreamFrame

\* batch_transcribe_chunks, lines 195-198
BatchItemExcept ==
    /\ pc = "batch_item_except"
    /\ Emit(<<emit_chunk_error(ChunkIdOf(chunk_files[i + 1], i))>>)
    /\ i' = i + 1
    /\ pc' = "batch_loop"
    /\ UNCHANGED <<exit_code, cacheVars, clientVars>>
    /\ UNCHANGED StreamFrame

\* batch_transcribe_chunks, line 200
BatchDone ==
    /\ pc = "batch_done"
    /\ Emit(<<emit_progress(100, "Batch processing complete")>>)
    /\ pc' = "main_return"
    /\ UNCHANGED <<exit_code, cacheVars, clientVars, i>>
    /\ UNCHANGED StreamFrame

\* batch_transcribe_chunks, lines 202-203: the exception is swallowed
BatchExcept ==
    /\ pc = "batch_except"
    /\ Emit(<<emit_error("Batch transcription failed")>>)
    /\ pc' = "main_return"
    /\ UNCHANGED <<exit_code, cacheVars, clientVars, i>>
    /\ UNCHANGED StreamFrame

\* main, lines 277-280 and the end of main: the process exits with status 0
StreamReturn ==
    /\ worker = "streaming" /\ pc = "main_return"
    /\ Exit(0)
    /\ UNCHANGED <<out, cacheVars, clientVars, i>>
    /\ UNCHANGED StreamFrame

\* keep_model_warm, line 234
WarmReady ==
    /\ pc = "warm_ready"
    /\ Emit(<<emit_model_ready>>)
    /\ pc' = "warm_idle"
    /\ UNCHANGED <<exit_code, cacheVars, clientVars, i>>
    /\ UNCHANGED StreamFrame

\* keep_model_warm, lines 237-238: one time.sleep(1) of the endless loop
WarmSleep ==
    /\ pc = "warm_idle"
    /\ pc' = "warm_idle"
    /\ UNCHANGED <<out, exit_code, cacheVars, clientVars, i>>
    /\ UNCHANGED StreamFrame

\* keep_model_warm, lines 240-241: the interrupt is caught and the function returns
WarmShutdown ==
    /\ pc = "warm_shutdown"
    /\ Emit(<<emit_model_shutdown>>)
    /\ pc' = "main_return"
    /\ UNCHANGED <<exit_code, cacheVars, clientVars, i>>
    /\ UNCHANGED StreamFrame

\* keep_model_warm, lines 242-243: the exception is swallowed
WarmExcept ==
    /\ pc = "warm_except"
    /\ Emit(<<emit_error("Model warming failed")>>)
    /\ pc' = "main_return"
    /\ UNCHANGED <<exit_code, cacheVars, clientVars, i>>
    /\ UNCHANGED StreamFrame

\* the positions inside main's try block (lines 262-280)
StreamTryBody ==
    {"main", "single_start", "load_check", "load_model", "load_except", "chunk_start",
     "chunk_call", "chunk_except", "single_result", "single_except", "batch_start",
     "batch_loop", "batch_result", "batch_item_except", "batch_done", "batch_except",
     "warm_ready", "warm_idle", "warm_shutdown", "warm_except", "main_return"}

\* the positions inside keep_model_warm's try block (lines 232-238)
WarmTryBody == {"load_check", "load_model", "load_except", "warm_ready", "warm_idle"}

\* mutant of StreamInterrupt: keep_model_warm has no handler of its own
StreamInterruptToMain ==
    /\ worker = "streaming" /\ command \in {"single", "batch", "warm"}
    /\ pc \in StreamTryBody
    /\ sigints < MaxInterrupts
    /\ sigints' = sigints + 1
    /\ pc' = "main_interrupted"
    /\ UNCHANGED <<out, exit_code, cacheVars, acquired, i>>
    /\ UNCHANGED StreamFrame

\* SIGINT: KeyboardInterrupt is raised in the main flow; no "except Exception"
\* catches it, so it unwinds to keep_model_warm's handler at line 240 when it
\* is raised inside that try block, and to main's handler at line 282 otherwise
StreamInterrupt ==
    /\ worker = "streaming" /\ command \in {"single", "batch", "warm"}
    /\ pc \in StreamTryBody
    /\ sigints < MaxInterrupts
    /\ sigints' = sigints + 1
    /\ pc' = IF command = "warm" /\ pc \in WarmTryBody THEN "warm_shutdown"
             ELSE "main_interrupted"
    /\ UNCHANGED <<out, exit_code, cacheVars, acquired, i>>
    /\ UNCHANGED StreamFrame

\* main, lines 282-284
StreamCancelled ==
    /\ worker = "streaming" /\ pc = "main_interrupted"
    /\ Emit(<<emit_cancelled>>)
    /\ Exit(1)
    /\ UNCHANGED <<cacheVars, clientVars, i>>
    /\ UNCHANGED StreamFrame

\* main, lines 285-287
StreamMainExcept ==
    /\ worker = "streaming" /\ pc = "main_except"
    /\ Emit(<<emit_error("Unexpected error")>>)
    /\ Exit(1)
    /\ UNCHANGED <<cacheVars, clientVars, i>>
    /\ UNCHANGED StreamFrame

NextStream ==
    \/ StreamMain \/ SingleStart \/ LoadCheck \/ LoadModel \/ LoadExcept
    \/ ChunkStart \/ ChunkCall \/ ChunkExcept \/ SingleResult \/ SingleExcept
    \/ BatchStart \/ BatchLoop \/ BatchResult \/ BatchItemExcept \/ BatchDone
    \/ BatchExcept \/ WarmReady \/ WarmSleep \/ WarmShutdown \/ WarmExcept
    \/ StreamReturn \/ StreamInterrupt \/ StreamCancelled \/ StreamMainExcept

\* a client calls load_model_if_needed(name)
Acquire(name) ==
    /\ worker = "streaming" /\ command = "acquire"
    /\ pc \in {"main", "acquire_done"}
    /\ Len(acquired) < MaxAcquires
    /\ model_name' = name
    /\ pc' = "load_check"
    /\ UNCHANGED <<out, exit_code, streamVars, whisperVars, openaiVars, aiVars, channelVars,
                   adapterVars, diskVars>>
    /\ UNCHANGED <<worker, command, cuda, audio, chunk_arg, chunk_files, output, file_size,
                   api_key, audio_ms, unlink_ok, transcript>>

\* the call returns LOADED_MODEL (line 86), or its exception reaches the client
AcquireReturn ==
    /\ pc \in {"acquire_return", "acquire_failed"}
    /\ acquired' = Append(acquired,
                          [name |-> model_name,
                           handle |-> IF pc = "acquire_return" THEN model ELSE NoModel])
    /\ pc' = "acquire_done"
    /\ UNCHANGED <<out, exit_code, cacheVars, sigints, i>>
    /\ UNCHANGED StreamFrame

\* the model cache with its client, and with the batch as its user
NextCache ==
    \/ (\E name \in ModelNames : Acquire(name)) \/ AcquireReturn
    \/ LoadCheck \/ LoadModel \/ LoadExcept
    \/ StreamMain \/ BatchStart \/ BatchLoop \/ ChunkStart \/ ChunkCall \/ ChunkExcept
    \/ BatchResult \/ BatchItemExcept \/ BatchDone \/ BatchExcept \/ StreamReturn
    \/ StreamMainExcept


----------------------------------------------------------------------------
(* Floating point *)

\* Binary floating point as Python's float computes it: a value is a record
\* [m, e] standing for m * 2^(-e), m a sequence of bits, lowest bit first,
\* of length Precision with its highest bit set. Where an operator needs an
\* intermediate value several times it binds it with x \in {value}, so that it
\* is computed once.
Precision == 53

\* what is left of num / den (num < den) after the first n bits behind the
\* binary point
\* (n bits are n \div 2 bits followed by the other n - n \div 2)
RECURSIVE FractionRem(_, _, _)
FractionRem(num, den, n) ==
    IF n = 0 THEN num
    ELSE IF n = 1 THEN (2 * num) % den
    ELSE CHOOSE after \in {FractionRem(half, den, n - (n \div 2)) :
                               half \in {FractionRem(num, den, n \div 2)}} : TRUE

\* the first count bits after the binary point of top / bottom, highest first
FractionBits(top, bottom, count) ==
    [pos \in 1..count |-> (2 * FractionRem(top, bottom, pos - 1)) \div bottom]

\* the zero bits between the binary point and the first one bit of part / whole
RECURSIVE LeadingZeros(_, _)
LeadingZeros(part, whole) ==
    IF 2 * part >= whole THEN 0 ELSE 1 + LeadingZeros(2 * part, whole)

Reverse(forward) ==
    CHOOSE backward \in {[at \in 1..Len(fw) |-> fw[Len(fw) + 1 - at]] : fw \in {forward}} : TRUE

\* word + 1: the ones below the lowest zero become zeros, that zero becomes a one
Inc(word) ==
    IF \A all \in DOMAIN word : word[all] = 1
    THEN [new \in 1..(Len(word) + 1) |-> IF new = Len(word) + 1 THEN 1 ELSE 0]
    ELSE [here \in DOMAIN word |->
             IF \A low \in 1..here : word[low] = 1 THEN 0
             ELSE IF \A below \in 1..(here - 1) : word[below] = 1 THEN 1
             ELSE word[here]]

\* the bits of the natural number nat, without leading zeros
RECURSIVE BitsOf(_)
BitsOf(nat) == IF nat = 0 THEN <<>> ELSE <<nat % 2>> \o BitsOf(nat \div 2)

\* the number whose bits are digits[lo], ..., digits[hi]
RECURSIVE BitsValue(_, _, _)
BitsValue(digits, lo, hi) ==
    IF lo > hi THEN 0
    ELSE IF lo = hi THEN digits[lo]
    ELSE CHOOSE number \in
            {BitsValue(digits, lo, mid) + (2 ^ (mid - lo + 1)) * BitsValue(digits, mid + 1, hi) :
                mid \in {(lo + hi) \div 2}} : TRUE

\* the number whose bits are digits[from], digits[from + 1], ...
FromBits(digits, from) == BitsValue(digits, from, Len(digits))

\* round-to-nearest, ties-to-even, of bits * 2^(-e) (plus a nonzero rest below
\* the lowest bit when sticky) to Precision bits
RoundBits(bits, e, sticky) ==
    LET drop == Len(bits) - Precision
        guard == drop >= 1 /\ bits[drop] = 1
        rest == sticky \/ \E j \in 1..(drop - 1) : bits[j] = 1
        up == guard /\ (rest \/ bits[drop + 1] = 1)
    IN  CHOOSE rounded \in
            {IF Len(kept) > Precision THEN [m |-> Tail(kept), e |-> e - drop - 1]
             ELSE [m |-> kept, e |-> e - drop] :
                kept \in {IF up THEN Inc(SubSeq(bits, drop + 1, Len(bits)))
                          ELSE SubSeq(bits, drop + 1, Len(bits))}} : TRUE

Round(unrounded, exponent, inexact) ==
    CHOOSE result \in {RoundBits(exact, exponent, inexact) : exact \in {unrounded}} : TRUE

\* the float of dividend / divisor for two positive integers, dividend < divisor:
\* Python's true division is correctly rounded
FloatDiv(dividend, divisor) ==
    CHOOSE quotient \in
        {Round(Reverse(SubSeq(FractionBits(dividend, divisor, z + Precision + 1),
                              z + 1, z + Precision + 1)),
               z + Precision + 1,
               FractionRem(dividend, divisor, z + Precision + 1) # 0) :
            z \in {LeadingZeros(dividend, divisor)}} : TRUE

\* factor[first..last] * times + carry: the bits at the places of
\* first..last and the carry out of them
RECURSIVE MulRange(_, _, _, _, _)
MulRange(factor, times, first, last, carry) ==
    IF first = last
    THEN CHOOSE place \in {[low |-> <<v % 2>>, carry |-> v \div 2] :
                              v \in {times * factor[first] + carry}} : TRUE
    ELSE CHOOSE both \in
            {[low |-> left.low \o right.low, carry |-> right.carry] :
                <<left, right>> \in
                    {<<lh, MulRange(factor, times, ((first + last) \div 2) + 1, last, lh.carry)>> :
                        lh \in {MulRange(factor, times, first, (first + last) \div 2, carry)}}} : TRUE

\* factor * times for a positive integer times
MulSmall(factor, times) ==
    CHOOSE product \in {all.low \o BitsOf(all.carry) :
                           all \in {MulRange(factor, times, 1, Len(factor), 0)}} : TRUE

\* the float d * f of a positive integer d and a float f
FloatMul(d, f) ==
    CHOOSE scaled \in {Round(MulSmall(g.m, d), g.e, FALSE) : g \in {f}} : TRUE

\* int(x) of a float 0 <= x < 2^Precision
FloatInt(x) ==
    CHOOSE whole_part \in {IF y.e <= 0 THEN FromBits(y.m, 1)
                           ELSE IF y.e >= Precision THEN 0
                           ELSE FromBits(y.m, y.e + 1) : y \in {x}} : TRUE

----------------------------------------------------------------------------
(* whisper_worker.py *)

WhisperModelNames == {"tiny", "large", "custom"}
WhisperFileSizes == {Unreadable, 1000, 49152}

InitWhisper ==
    /\ InitCommon /\ NoResponse
    /\ worker = "whisper" /\ command = "none"
    /\ model_name \in WhisperModelNames /\ cuda \in BOOLEAN
    /\ audio \in {"ok", "missing", "bad_audio"}
    /\ NoBatchArgs /\ NoRemoteArgs
    /\ output \in BOOLEAN
    /\ file_size \in WhisperFileSizes

WhisperFrame == <<inputs, streamVars, openaiVars, aiVars, diskVars, adapterVars, channelVars>>

\* PROCESSING_SPEED_FACTORS (lines 34-41) and .get(model_name, 2.0), in tenths
SpeedFactor10(name) ==
    CASE name = "tiny" -> 50
      [] name = "base" -> 30
      [] name = "small" -> 20
      [] name = "medium" -> 15
      [] name = "large" -> 10
      [] name = "turbo" -> 25
      [] OTHER -> 20

\* get_audio_duration (lines 68-76), in units of 1/16384 second:
\* max(file_size / (16 * 1024), 1.0), or 60.0 when getsize raises
AudioDuration16k(size) ==
    IF size = Unreadable THEN 60 * 16384
    ELSE IF size > 16384 THEN size ELSE 16384

\* line 111: elapsed < self.estimated_processing_time, where the estimate is
\* duration / speed_factor (line 91)
BeforeEstimate(elapsed) ==
    elapsed * 16384 * SpeedFactor10(model_name) < 10 * AudioDuration16k(file_size)

\* a variant that spreads the interpolation over 30..100
EstimatedProgressFullRange(elapsed) ==
    30 + ((70 * elapsed * 16384 * SpeedFactor10(model_name))
              \div (10 * AudioDuration16k(file_size)))

\* lines 112-113: 30 + int((elapsed / estimated_processing_time) * 55)
\* in floating point; elapsed is a whole number of seconds below the estimate,
\* and for the durations and factors of the model the estimate
\* duration / speed_factor is computed without rounding whenever a positive
\* elapsed lies below it, so that progress_ratio is the float of the exact
\* quotient
EstimatedProgress(elapsed) ==
    IF elapsed = 0 THEN 30
    ELSE 30 + FloatInt(FloatMul(55, FloatDiv(elapsed * 16384 * SpeedFactor10(model_name),
                                             10 * AudioDuration16k(file_size))))

\* mutant of ReporterValue: the "finalizing" branch is lost and the
\* interpolation runs on past the estimate
ReporterValueUncapped(elapsed) == EstimatedProgress(elapsed)

\* lines 111-119: the value one tick of the reporter emits
ReporterValue(elapsed) ==
    IF BeforeEstimate(elapsed) THEN EstimatedProgress(elapsed) ELSE 85

\* main, lines 223-228
WhisperMain ==
    /\ worker = "whisper" /\ pc = "main"
    /\ Emit(<<emit_progress(0, "Starting transcription worker")>>)
    /\ IF shutdown_requested THEN pc' = "w_return" ELSE pc' = "w_load_start"
    /\ UNCHANGED <<exit_code, whisperVars, WhisperFrame>>

\* load_model, lines 127-132
WhisperLoadStart ==
    /\ pc = "w_load_start"
    /\ Emit(<<emit_progress(5, "Loading Whisper model")>>
            \o (IF cuda THEN <<emit_progress(10, "CUDA detected, but using CPU for stability")>>
                ELSE <<>>))
    /\ pc' = "w_load_model"
    /\ UNCHANGED <<exit_code, whisperVars, WhisperFrame>>

\* load_model, lines 134-137 and main, lines 234-235: whisper.load_model
\* returns or raises
WhisperLoadModel ==
    /\ pc = "w_load_model"
    /\ \/ /\ Emit(<<emit_progress(20, "Model loaded successfully")>>)
          /\ IF shutdown_requested THEN pc' = "w_return" ELSE pc' = "w_analyze"
       \/ /\ pc' = "w_load_except"
          /\ UNCHANGED out
    /\ UNCHANGED <<exit_code, whisperVars, WhisperFrame>>

\* load_model, lines 138-140: emit_error, then re-raise to main
WhisperLoadExcept ==
    /\ pc = "w_load_except"
    /\ Emit(<<emit_error("Failed to load model")>>)
    /\ pc' = "w_main_except"
    /\ UNCHANGED <<exit_code, whisperVars, WhisperFrame>>

\* a worker whose table lookup raises KeyError for a model name it does not list
WhisperAnalyzeStrict ==
    /\ pc = "w_analyze"
    /\ IF audio = "missing" \/ model_name = "custom"
       THEN /\ Emit(<<emit_progress(25, "Analyzing audio file...")>>)
            /\ pc' = "w_transcribe_except"
            /\ UNCHANGED <<rp_pc, start_time>>
       ELSE /\ Emit(<<emit_progress(25, "Analyzing audio file..."),
                      emit_progress(30, "Audio duration, estimated processing")>>)
            /\ start_time' = clock
            /\ rp_pc' = "check"
            /\ pc' = "w_backend"
    /\ UNCHANGED <<exit_code, shutdown_requested, raised, stop_event, clock, wake_at,
                   join_at, WhisperFrame>>

\* transcribe_audio, lines 146-160: the existence test, the estimate, and the
\* creation and start of the reporter thread
WhisperAnalyze ==
    /\ pc = "w_analyze"
    /\ IF audio = "missing"
       THEN /\ Emit(<<emit_progress(25, "Analyzing audio file...")>>)
            /\ pc' = "w_transcribe_except"
            /\ UNCHANGED <<rp_pc, start_time>>
       ELSE /\ Emit(<<emit_progress(25, "Analyzing audio file..."),
                      emit_progress(30, "Audio duration, estimated processing")>>)
            /\ start_time' = clock
            /\ rp_pc' = "check"
            /\ pc' = "w_backend"
    /\ UNCHANGED <<exit_code, shutdown_requested, raised, stop_event, clock, wake_at,
                   join_at, WhisperFrame>>

\* what model.transcribe of the local backend raises on audio it cannot decode
LocalBackendErrors == {"RuntimeError"}

\* transcribe_audio, lines 162-171: the blocking model.transcribe returns or
\* raises; either way control enters the finally block
WhisperBackend ==
    /\ pc = "w_backend"
    /\ raised' \in (IF audio = "ok" THEN {"none"} ELSE LocalBackendErrors)
    /\ pc' = "w_stop"
    /\ UNCHANGED <<out, exit_code, shutdown_requested, rp_pc, stop_event, clock,
                   start_time, wake_at, join_at, WhisperFrame>>

\* ProgressReporter.stop, line 101
ReporterStop ==
    /\ pc = "w_stop"
    /\ stop_event' = TRUE
    /\ join_at' = clock + 1
    /\ pc' = "w_join"
    /\ UNCHANGED <<out, exit_code, shutdown_requested, raised, rp_pc, clock, start_time,
                   wake_at, WhisperFrame>>

\* where control goes when the finally block (line 173) is left
AfterFinally ==
    CASE raised = "none" -> "w_finish"
      [] raised = "SystemExit" -> "w_system_exit"
      [] OTHER -> "w_transcribe_except"

\* the clock of the model stops at MaxClock, which stands for every later time
\* as well: the timeout of a join that ends after it may expire at any moment
\* from then on
TimerExpired(t) == clock >= t \/ clock = MaxClock

\* ProgressReporter.stop, lines 102-103: thread.join(timeout=1.0) returns when
\* the thread has ended or when one second has passed, whichever is first
ReporterJoin ==
    /\ pc = "w_join"
    /\ rp_pc = "done" \/ TimerExpired(join_at)
    /\ pc' = AfterFinally
    /\ UNCHANGED <<out, exit_code, whisperVars, WhisperFrame>>

\* transcribe_audio, lines 175-193 and main, lines 240-242
WhisperFinish ==
    /\ pc = "w_finish"
    /\ Emit(<<emit_progress(85, "Processing transcription results..."),
              emit_progress(95, "Transcription complete")>>)
    /\ IF shutdown_requested THEN pc' = "w_return" ELSE pc' = "w_save"
    /\ UNCHANGED <<exit_code, whisperVars, WhisperFrame>>

\* transcribe_audio, lines 195-197: emit_error, then re-raise to main
WhisperTranscribeExcept ==
    /\ pc = "w_transcribe_except"
    /\ Emit(<<emit_error("Transcription failed")>>)
    /\ pc' = "w_main_except"
    /\ UNCHANGED <<exit_code, whisperVars, WhisperFrame>>

\* with open(path, 'w') as f: json.dump(result, f): the file is written
\* whole, or open raises and nothing is written, or a write raises part way
WriteOutcomes == {"complete", "absent", "partial"}

\* main, lines 245-248: the optional output file; open or json.dump may raise
WhisperSave ==
    /\ pc = "w_save"
    /\ IF output
       THEN /\ Emit(<<emit_progress(98, "Saving transcript to file...")>>)
            /\ save_calls' = save_calls + 1
            /\ output_file' \in WriteOutcomes
            /\ pc' = IF output_file' = "complete" THEN "w_result" ELSE "w_main_except"
       ELSE /\ pc' = "w_result"
            /\ UNCHANGED <<out, diskVars>>
    /\ UNCHANGED <<exit_code, whisperVars, inputs, streamVars, openaiVars, aiVars,
                   adapterVars, channelVars>>

\* main, lines 251-256
WhisperResult ==
    /\ pc = "w_result"
    /\ Emit(<<emit_progress(100, "Complete"), emit_result>>)
    /\ pc' = "w_return"
    /\ UNCHANGED <<exit_code, whisperVars, WhisperFrame>>

\* the end of main: the process exits with status 0
WhisperReturn ==
    /\ pc = "w_return"
    /\ Exit(0)
    /\ UNCHANGED <<out, whisperVars, WhisperFrame>>

\* mutant of WhisperMainExcept: the handler exits without reporting
WhisperMainExceptSilent ==
    /\ pc = "w_main_except"
    /\ Exit(1)
    /\ UNCHANGED <<out, whisperVars, WhisperFrame>>

\* main, lines 261-263
WhisperMainExcept ==
    /\ pc = "w_main_except"
    /\ Emit(<<emit_error("Unexpected error")>>)
    /\ Exit(1)
    /\ UNCHANGED <<whisperVars, WhisperFrame>>

\* signal_handler, lines 203-208, run in the main flow wherever it is: it
\* emits the error and raises SystemExit, which no "except Exception" catches;
\* raised inside the try block of lines 162-170 it runs the finally block first
WhisperSignal ==
    /\ worker = "whisper" /\ pc # "exit" /\ ~shutdown_requested
    /\ shutdown_requested' = TRUE
    /\ Emit(<<emit_error("Transcription cancelled by signal")>>)
    /\ IF pc = "w_backend"
       THEN /\ raised' = "SystemExit"
            /\ pc' = "w_stop"
       ELSE /\ raised' = raised
            /\ pc' = "w_system_exit"
    /\ UNCHANGED <<exit_code, rp_pc, stop_event, clock, start_time, wake_at, join_at,
                   WhisperFrame>>

\* sys.exit(1), line 208, once SystemExit has left main
WhisperSystemExit ==
    /\ pc = "w_system_exit"
    /\ Exit(1)
    /\ UNCHANGED <<out, whisperVars, WhisperFrame>>

\* ProgressReporter._report_progress, line 107: the loop test
ReporterCheck ==
    /\ rp_pc = "check" /\ pc # "exit"
    /\ rp_pc' = IF stop_event THEN "done" ELSE "report"
    /\ UNCHANGED <<pc, out, exit_code, shutdown_requested, raised, stop_event, clock,
                   start_time, wake_at, join_at, WhisperFrame>>

\* ProgressReporter._report_progress, lines 108-121: one report, then sleep
ReporterReport ==
    /\ rp_pc = "report" /\ pc # "exit"
    /\ Emit(<<emit_progress(ReporterValue(clock - start_time), "Processing audio")>>)
    /\ wake_at' = clock + 1
    /\ rp_pc' = "sleep"
    /\ UNCHANGED <<pc, exit_code, shutdown_requested, raised, stop_event, clock,
                   start_time, join_at, WhisperFrame>>

\* the end of time.sleep(1.0), line 121
ReporterWake ==
    /\ rp_pc = "sleep" /\ pc # "exit"
    /\ clock >= wake_at
    /\ rp_pc' = "check"
    /\ UNCHANGED <<pc, out, exit_code, shutdown_requested, raised, stop_event, clock,
                   start_time, wake_at, join_at, WhisperFrame>>

\* one second passes while the reporter exists
Tick ==
    /\ worker = "whisper" /\ pc # "exit" /\ rp_pc # "none"
    /\ clock < MaxClock
    /\ clock' = clock + 1
    /\ UNCHANGED <<pc, out, exit_code, shutdown_requested, raised, rp_pc, stop_event,
                   start_time, wake_at, join_at, WhisperFrame>>

\* The reporter loop on its own, for a client that creates a ProgressReporter
\* at time 0 and calls stop() at some moment: each pass of the loop reads the
\* time, which is at least one second after the previous pass read it
TickFileSizes == {Unreadable, 1000, 450560}
MaxElapsed == 4
MaxReports == 3

InitTick ==
    /\ InitCommon /\ NoResponse
    /\ worker = "whisper" /\ command = "report"
    /\ model_name \in WhisperModelNames /\ cuda = FALSE
    /\ audio = "ok"
    /\ NoBatchArgs /\ NoRemoteArgs
    /\ output = FALSE
    /\ file_size \in TickFileSizes

\* ProgressReporter._report_progress, lines 107-121: one pass of the loop
ReportAt ==
    /\ worker = "whisper" /\ command = "report" /\ pc = "main"
    /\ ~stop_event
    /\ Len(out) < MaxReports
    /\ \E now \in wake_at..MaxElapsed :
          /\ clock' = now
          /\ Emit(<<emit_progress(ReporterValue(now - start_time), "Processing audio")>>)
          /\ wake_at' = now + 1
    /\ UNCHANGED <<pc, exit_code, shutdown_requested, raised, rp_pc, stop_event, start_time,
                   join_at, WhisperFrame>>

\* ProgressReporter.stop, line 101
StopReporting ==
    /\ worker = "whisper" /\ command = "report" /\ pc = "main"
    /\ ~stop_event
    /\ stop_event' = TRUE
    /\ UNCHANGED <<pc, out, exit_code, shutdown_requested, raised, rp_pc, clock, start_time,
                   wake_at, join_at, WhisperFrame>>

NextTick == ReportAt \/ StopReporting

SpecTick == InitTick /\ [][NextTick]_vars

NextWhisper ==
    \/ WhisperMain \/ WhisperLoadStart \/ WhisperLoadModel \/ WhisperLoadExcept
    \/ WhisperAnalyze \/ WhisperBackend \/ ReporterStop \/ ReporterJoin
    \/ WhisperFinish \/ WhisperTranscribeExcept \/ WhisperSave \/ WhisperResult
    \/ WhisperReturn \/ WhisperMainExcept \/ WhisperSignal \/ WhisperSystemExit
    \/ ReporterCheck \/ ReporterReport \/ ReporterWake \/ Tick


----------------------------------------------------------------------------
(* openai_transcription_worker.py *)

MiB == 1024 * 1024
\* lines 58-59
MAX_FILE_SIZE == 25 * 1024 * 1024
TARGET_FILE_SIZE == 24 * 1024 * 1024

OpenAIFileSizes ==
    {Unreadable, 10 * MiB, MAX_FILE_SIZE - 1, MAX_FILE_SIZE, MAX_FILE_SIZE + 1, 26214540,
     30 * MiB}
\* decoded lengths in ms: one minute, 30 MiB at 128 kbit/s, 26214540 bytes at
\* 96 kbit/s, 30 MiB at 32 kbit/s
AudioLengths == {60000, 1966080, 2184545, 7864320}

InitOpenAI ==
    /\ InitCommon /\ NoResponse
    /\ worker = "openai" /\ command = "none"
    /\ model_name = "whisper-1" /\ cuda = FALSE
    /\ audio \in {"ok", "missing", "unsupported"}
    /\ NoBatchArgs
    /\ output \in BOOLEAN
    /\ file_size \in OpenAIFileSizes
    /\ audio_ms \in AudioLengths
    /\ api_key \in BOOLEAN
    /\ unlink_ok \in BOOLEAN
    /\ transcript = "none"

OpenAIFrame == <<inputs, streamVars, shutdown_requested, rp_pc, stop_event, clock,
                 start_time, wake_at, join_at, aiVars, diskVars, adapterVars, channelVars>>

\* mutant of TargetDuration: nothing is cut
TargetDurationWhole(original_duration, target_size, original_size) == original_duration

\* truncate_audio_file, lines 174-180: size_ratio = target_size / original_size,
\* then int(original_duration * size_ratio), both in floating point
TargetDuration(original_duration, target_size, original_size) ==
    IF original_duration = 0 THEN 0
    ELSE FloatInt(FloatMul(original_duration, FloatDiv(target_size, original_size)))

\* truncate_audio_file, line 195: export(format="mp3", bitrate="128k") writes
\* 128000 bits, 16000 bytes, per second of audio: 16 bytes per ms
ExportedSize(duration_ms) == 16 * duration_ms

\* mutant of NeedsTruncation: the limit itself counts as too large
NeedsTruncationAtLimit(size) == size >= MAX_FILE_SIZE

\* transcribe_with_openai, line 291
NeedsTruncation(size) == size > MAX_FILE_SIZE

\* main, lines 429-433, and create_openai_client: no key is a ValueError, a
\* failing OpenAI(...) constructor is any other exception
OpenAIMain ==
    /\ worker = "openai" /\ pc = "main"
    /\ Emit(<<emit_progress(0, "Starting OpenAI transcription..."),
              emit_progress(2, "Initializing OpenAI client...")>>)
    /\ IF ~api_key
       THEN /\ raised' = "OpenAI API key not provided"
            /\ pc' = "oa_value_error"
       ELSE \/ /\ raised' = raised
               /\ pc' = "oa_validate"
            \/ /\ raised' = "Exception"
               /\ pc' = "oa_main_except"
    /\ UNCHANGED <<exit_code, openaiVars, OpenAIFrame>>

\* a Size Guard that starts the Trimmer without announcing it
OpenAIValidateQuiet ==
    /\ pc = "oa_validate"
    /\ audio = "ok" /\ file_size # Unreadable
    /\ Emit(<<emit_progress(5, "Validating file..."),
              emit_progress(10, "Checking file size...")>>)
    /\ raised' = raised
    /\ pc' = IF NeedsTruncation(file_size) THEN "oa_truncate" ELSE "oa_upload"
    /\ UNCHANGED <<exit_code, openaiVars, OpenAIFrame>>

\* transcribe_with_openai, lines 281-305: validation, the size check and the
\* choice between the original file and the Trimmer
OpenAIValidate ==
    /\ pc = "oa_validate"
    /\ IF audio # "ok"
       THEN /\ Emit(<<emit_progress(5, "Validating file...")>>)
            /\ raised' = IF audio = "missing" THEN "File not found"
                         ELSE "Unsupported file format"
            /\ pc' = "oa_value_error"
       ELSE IF file_size = Unreadable
       THEN /\ Emit(<<emit_progress(5, "Validating file..."),
                      emit_progress(10, "Checking file size...")>>)
            /\ raised' = "Cannot access file"
            /\ pc' = "oa_value_error"
       ELSE IF NeedsTruncation(file_size)
       THEN /\ Emit(<<emit_progress(5, "Validating file..."),
                      emit_progress(10, "Checking file size..."),
                      emit_progress(12, "File too large, truncating to 24MB...")>>)
            /\ raised' = raised
            /\ pc' = "oa_truncate"
       ELSE /\ Emit(<<emit_progress(5, "Validating file..."),
                      emit_progress(10, "Checking file size..."),
                      emit_progress(15, "File size OK, processing normally...")>>)
            /\ raised' = raised
            /\ pc' = "oa_upload"
    /\ UNCHANGED <<exit_code, openaiVars, OpenAIFrame>>

\* truncate_audio_file, lines 146-193: decoding returns or raises; then the
\* cut is computed and the temp file is created
OpenAITruncate ==
    /\ pc = "oa_truncate"
    /\ truncate_calls' = truncate_calls + 1
    /\ \/ /\ Emit(<<emit_progress(15, "Loading audio file for truncation..."),
                    emit_progress(25, "Calculating truncation point..."),
                    emit_progress(35, "Truncating..."),
                    emit_progress(45, "Saving truncated file...")>>)
          /\ target_duration' = TargetDuration(audio_ms, TARGET_FILE_SIZE, file_size)
          /\ tmp_file' = "exists"
          /\ raised' = raised
          /\ pc' = "oa_export"
       \/ /\ Emit(<<emit_progress(15, "Loading audio file for truncation...")>>)
          /\ UNCHANGED <<tmp_file, target_duration>>
          /\ raised' = "Failed to truncate audio file"
          /\ pc' = "oa_value_error"
    /\ UNCHANGED <<exit_code, transcription_file, temp_file_to_cleanup, truncated_size,
                   uploaded, OpenAIFrame>>

\* truncate_audio_file, lines 194-207 and transcribe_with_openai, lines 297-302:
\* the export returns or raises; only a returned path is remembered for cleanup
OpenAIExport ==
    /\ pc = "oa_export"
    /\ \/ /\ truncated_size' = ExportedSize(target_duration)
          /\ Emit(<<emit_progress(50, "Truncated file size")>>)
          /\ transcription_file' = "temp"
          /\ temp_file_to_cleanup' = TRUE
          /\ raised' = raised
          /\ pc' = "oa_upload"
       \/ /\ raised' = "Failed to truncate audio file"
          /\ pc' = "oa_value_error"
          /\ UNCHANGED <<out, truncated_size, transcription_file, temp_file_to_cleanup>>
    /\ UNCHANGED <<exit_code, tmp_file, target_duration, truncate_calls, uploaded,
                   OpenAIFrame>>

\* what client.audio.transcriptions.create and the reading of its response
\* raise: the four classes of the openai package that lines 369-380 name (the
\* first three are subclasses of APIError), and any other exception, such as
\* the AttributeError of a response without .text (line 348)
RawBackendErrors ==
    {"AuthenticationError", "RateLimitError", "BadRequestError", "APIError", "AttributeError"}

\* lines 369-384: the except clauses, tried in order; each raises ValueError
\* with its own message
Translate(e) ==
    CASE e = "AuthenticationError" -> "Authentication failed"
      [] e = "RateLimitError" -> "Rate limit exceeded"
      [] e = "BadRequestError" -> "Bad request"
      [] e = "APIError" -> "OpenAI API error"
      [] OTHER -> "Transcription failed"

\* the messages of the ValueError that leaves transcribe_with_openai after a
\* failed backend call
BackendFailures == {Translate(e) : e \in RawBackendErrors}

\* transcribe_with_openai, lines 307-333: the cost estimate and open(); a
\* failing open is caught at line 381
OpenAIUpload ==
    /\ pc = "oa_upload"
    /\ \/ /\ Emit(<<emit_progress(55, "Calculating estimated cost..."),
                    emit_progress(60, "Estimated cost"),
                    emit_progress(65, "Uploading file to OpenAI..."),
                    emit_progress(75, "Processing transcription...")>>)
          /\ raised' = raised
          /\ pc' = "oa_api_call"
       \/ /\ Emit(<<emit_progress(55, "Calculating estimated cost..."),
                    emit_progress(60, "Estimated cost"),
                    emit_progress(65, "Uploading file to OpenAI...")>>)
          /\ raised' = Translate("OSError")
          /\ pc' = "oa_cleanup"
    /\ UNCHANGED <<exit_code, openaiVars, OpenAIFrame>>

\* transcribe_with_openai, lines 335-367: the call returns or raises
OpenAIApiCall ==
    /\ pc = "oa_api_call"
    /\ uploaded' = transcription_file
    /\ \/ /\ Emit(<<emit_progress(90, "Processing response..."),
                    emit_progress(100, "Transcription completed")>>)
          /\ raised' = "none"
       \/ /\ \E e \in RawBackendErrors : raised' = Translate(e)
          /\ UNCHANGED out
    /\ pc' = "oa_cleanup"
    /\ UNCHANGED <<exit_code, transcription_file, temp_file_to_cleanup, tmp_file,
                   target_duration, truncated_size, truncate_calls, OpenAIFrame>>

\* mutant of OpenAICleanup: the temp file is deleted only after a successful call
OpenAICleanupOnSuccess ==
    /\ pc = "oa_cleanup"
    /\ IF temp_file_to_cleanup /\ tmp_file = "exists" /\ unlink_ok /\ raised = "none"
       THEN tmp_file' = "deleted"
       ELSE tmp_file' = tmp_file
    /\ pc' = CASE raised = "none" -> "oa_save"
               [] raised = "KeyboardInterrupt" -> "oa_interrupted"
               [] OTHER -> "oa_value_error"
    /\ UNCHANGED <<out, exit_code, raised, transcription_file, temp_file_to_cleanup,
                   target_duration, truncated_size, truncate_calls, uploaded, OpenAIFrame>>

\* transcribe_with_openai, lines 386-394: os.unlink succeeds, or fails and is
\* only logged; then the function returns or the exception goes on to main
OpenAICleanup ==
    /\ pc = "oa_cleanup"
    /\ IF temp_file_to_cleanup /\ tmp_file = "exists" /\ unlink_ok
       THEN tmp_file' = "deleted"
       ELSE tmp_file' = tmp_file
    /\ pc' = CASE raised = "none" -> "oa_save"
               [] raised = "KeyboardInterrupt" -> "oa_interrupted"
               [] OTHER -> "oa_value_error"
    /\ UNCHANGED <<out, exit_code, raised, transcription_file, temp_file_to_cleanup,
                   target_duration, truncated_size, truncate_calls, uploaded, OpenAIFrame>>

\* main, lines 445-446 and save_output: a failed write is reported and swallowed
OpenAISave ==
    /\ pc = "oa_save"
    /\ IF output
       THEN /\ save_calls' = save_calls + 1
            /\ output_file' \in WriteOutcomes
            /\ IF output_file' = "complete" THEN UNCHANGED out
               ELSE Emit(<<emit_error("Failed to save output file")>>)
       ELSE UNCHANGED <<out, diskVars>>
    /\ pc' = "oa_result"
    /\ UNCHANGED <<exit_code, raised, openaiVars, inputs, streamVars, shutdown_requested,
                   rp_pc, stop_event, clock, start_time, wake_at, join_at, aiVars,
                   adapterVars, channelVars>>

\* main, lines 449-451
OpenAIResult ==
    /\ pc = "oa_result"
    /\ Emit(<<emit_result>>)
    /\ pc' = "oa_return"
    /\ UNCHANGED <<exit_code, raised, openaiVars, OpenAIFrame>>

\* the end of main: the process exits with status 0
OpenAIReturn ==
    /\ pc = "oa_return"
    /\ Exit(0)
    /\ UNCHANGED <<out, raised, openaiVars, OpenAIFrame>>

\* a handler that reports the failure and lets main return
OpenAIValueErrorReturns ==
    /\ pc = "oa_value_error"
    /\ Emit(<<emit_error(raised)>>)
    /\ pc' = "oa_return"
    /\ UNCHANGED <<exit_code, raised, openaiVars, OpenAIFrame>>

\* main, lines 453-456: emit_error(str(e))
OpenAIValueError ==
    /\ pc = "oa_value_error"
    /\ Emit(<<emit_error(raised)>>)
    /\ Exit(1)
    /\ UNCHANGED <<raised, openaiVars, OpenAIFrame>>

\* main, lines 457-460
OpenAIInterrupted ==
    /\ pc = "oa_interrupted"
    /\ Emit(<<emit_error("Transcription cancelled by user")>>)
    /\ Exit(1)
    /\ UNCHANGED <<raised, openaiVars, OpenAIFrame>>

\* main, lines 461-465
OpenAIMainExcept ==
    /\ pc = "oa_main_except"
    /\ Emit(<<emit_error("Unexpected error")>>)
    /\ Exit(1)
    /\ UNCHANGED <<raised, openaiVars, OpenAIFrame>>

\* SIGINT: KeyboardInterrupt in the main flow. Inside the try block of lines
\* 307-367 the finally block runs first; elsewhere it goes straight to main
OpenAIInterrupt ==
    /\ worker = "openai"
    /\ pc \in {"main", "oa_validate", "oa_truncate", "oa_export", "oa_upload",
               "oa_api_call", "oa_cleanup", "oa_save", "oa_result"}
    /\ raised' = "KeyboardInterrupt"
    /\ pc' = IF pc \in {"oa_upload", "oa_api_call"} THEN "oa_cleanup" ELSE "oa_interrupted"
    /\ UNCHANGED <<out, exit_code, openaiVars, OpenAIFrame>>

NextOpenAI ==
    \/ OpenAIMain \/ OpenAIValidate \/ OpenAITruncate \/ OpenAIExport \/ OpenAIUpload
    \/ OpenAIApiCall \/ OpenAICleanup \/ OpenAISave \/ OpenAIResult \/ OpenAIReturn
    \/ OpenAIValueError \/ OpenAIInterrupted \/ OpenAIMainExcept \/ OpenAIInterrupt


----------------------------------------------------------------------------
(* ai_worker.py *)

\* the transcript file: "unreadable" fails in open or json.load, "notext" has
\* neither "text" nor "result.text", "empty" has the text "", "short" has a
\* text of fewer than 10 characters once stripped
Transcripts == {"unreadable", "notext", "empty", "short", "ok"}

InitAI ==
    /\ InitCommon /\ NoResponse
    /\ worker = "ai" /\ command = "none"
    /\ model_name = "gpt-4o" /\ cuda = FALSE
    /\ audio = "none"
    /\ NoBatchArgs
    /\ output \in BOOLEAN
    /\ file_size = 0 /\ audio_ms = 0 /\ unlink_ok = TRUE
    /\ api_key \in BOOLEAN
    /\ transcript \in Transcripts

AIFrame == <<inputs, streamVars, whisperVars, openaiVars, diskVars, adapterVars, channelVars>>

\* mutant of AIMain: the length of the text is not checked in main
AIMainUnchecked ==
    /\ worker = "ai" /\ pc = "main"
    /\ Emit(<<emit_progress(0, "Starting AI worker"),
              emit_progress(5, "Loading transcript...")>>)
    /\ pc' = IF transcript \in {"ok", "empty", "short"} THEN "ai_process" ELSE "ai_main_except"
    /\ UNCHANGED <<exit_code, aiVars, AIFrame>>

\* main, lines 192-211
AIMain ==
    /\ worker = "ai" /\ pc = "main"
    /\ Emit(<<emit_progress(0, "Starting AI worker"),
              emit_progress(5, "Loading transcript...")>>)
    /\ pc' = IF transcript = "ok" THEN "ai_process" ELSE "ai_main_except"
    /\ UNCHANGED <<exit_code, aiVars, AIFrame>>

\* process_transcript, lines 150-157
AIProcess ==
    /\ pc = "ai_process"
    /\ Emit(<<emit_progress(0, "Starting AI processing")>>)
    /\ pc' = IF ~api_key \/ transcript # "ok" THEN "ai_process_except" ELSE "ai_client"
    /\ UNCHANGED <<exit_code, aiVars, AIFrame>>

\* create_openai_client, lines 58-68, and process_transcript, lines 160-161:
\* ChatOpenAI(...) returns, or raises and is reported before it is re-raised
AICreateClient ==
    /\ pc = "ai_client"
    /\ \/ /\ Emit(<<emit_progress(10, "OpenAI client initialized")>>)
          /\ llm' = TRUE
          /\ pc' = "ai_title"
       \/ /\ Emit(<<emit_error("Failed to create OpenAI client")>>)
          /\ llm' = llm
          /\ pc' = "ai_process_except"
    /\ UNCHANGED <<exit_code, title, summary, AIFrame>>

\* generate_title, line 74
AITitle ==
    /\ pc = "ai_title"
    /\ Emit(<<emit_progress(25, "Generating title...")>>)
    /\ pc' = "ai_title_call"
    /\ UNCHANGED <<exit_code, aiVars, AIFrame>>

\* generate_title, lines 98-108: chain.invoke returns, or raises and the
\* handler reports it and returns a default title
AITitleCall ==
    /\ pc = "ai_title_call"
    /\ \/ /\ Emit(<<emit_progress(50, "Title generated")>>)
          /\ title' = "generated"
       \/ /\ Emit(<<emit_error("Title generation failed")>>)
          /\ title' = "Untitled Recording"
    /\ pc' = "ai_summary"
    /\ UNCHANGED <<exit_code, summary, llm, AIFrame>>

\* generate_summary, line 114
AISummary ==
    /\ pc = "ai_summary"
    /\ Emit(<<emit_progress(75, "Generating summary...")>>)
    /\ pc' = "ai_summary_call"
    /\ UNCHANGED <<exit_code, aiVars, AIFrame>>

\* generate_summary, lines 134-144, and process_transcript, line 169
AISummaryCall ==
    /\ pc = "ai_summary_call"
    /\ \/ /\ Emit(<<emit_progress(95, "Summary generated"),
                    emit_progress(100, "AI processing complete")>>)
          /\ summary' = "generated"
       \/ /\ Emit(<<emit_error("Summary generation failed"),
                    emit_progress(100, "AI processing complete")>>)
          /\ summary' = "Summary generation failed."
    /\ pc' = "ai_save"
    /\ UNCHANGED <<exit_code, title, llm, AIFrame>>

\* process_transcript, lines 176-178: emit_error, then re-raise to main
AIProcessExcept ==
    /\ pc = "ai_process_except"
    /\ Emit(<<emit_error("AI processing failed")>>)
    /\ pc' = "ai_main_except"
    /\ UNCHANGED <<exit_code, aiVars, AIFrame>>

\* main, lines 217-220: the optional output file; open or json.dump may raise
AISave ==
    /\ pc = "ai_save"
    /\ IF output
       THEN /\ Emit(<<emit_progress(98, "Saving AI results to file...")>>)
            /\ save_calls' = save_calls + 1
            /\ output_file' \in WriteOutcomes
            /\ pc' = IF output_file' = "complete" THEN "ai_result" ELSE "ai_main_except"
       ELSE /\ pc' = "ai_result"
            /\ UNCHANGED <<out, diskVars>>
    /\ UNCHANGED <<exit_code, aiVars, inputs, streamVars, whisperVars, openaiVars,
                   adapterVars, channelVars>>

\* main, lines 223-226
AIResult ==
    /\ pc = "ai_result"
    /\ Emit(<<emit_result>>)
    /\ pc' = "ai_return"
    /\ UNCHANGED <<exit_code, aiVars, AIFrame>>

\* the end of main: the process exits with status 0
AIReturn ==
    /\ pc = "ai_return"
    /\ Exit(0)
    /\ UNCHANGED <<out, aiVars, AIFrame>>

\* main, lines 231-233
AIMainExcept ==
    /\ pc = "ai_main_except"
    /\ Emit(<<emit_error("Unexpected error")>>)
    /\ Exit(1)
    /\ UNCHANGED <<aiVars, AIFrame>>

\* SIGINT: KeyboardInterrupt in the main flow; no "except Exception" catches it
AIInterrupt ==
    /\ worker = "ai"
    /\ pc \in {"main", "ai_process", "ai_client", "ai_title", "ai_title_call",
               "ai_summary", "ai_summary_call", "ai_process_except", "ai_save",
               "ai_result"}
    /\ pc' = "ai_interrupted"
    /\ UNCHANGED <<out, exit_code, aiVars, AIFrame>>

\* main, lines 228-230
AIInterrupted ==
    /\ pc = "ai_interrupted"
    /\ Emit(<<emit_error("AI processing cancelled by user")>>)
    /\ Exit(1)
    /\ UNCHANGED <<aiVars, AIFrame>>

NextAI ==
    \/ AIMain \/ AIProcess \/ AICreateClient \/ AITitle \/ AITitleCall \/ AISummary
    \/ AISummaryCall \/ AIProcessExcept \/ AISave \/ AIResult \/ AIReturn
    \/ AIMainExcept \/ AIInterrupt \/ AIInterrupted

----------------------------------------------------------------------------
(* Specifications: every worker, and each worker alone *)

Init == InitWhisper \/ InitSingle \/ InitBatch \/ InitWarm \/ InitOpenAI \/ InitAI

Next == NextWhisper \/ NextStream \/ NextOpenAI \/ NextAI

Spec == Init /\ [][Next]_vars

SpecWhisper == InitWhisper /\ [][NextWhisper]_vars

SpecStream == (InitSingle \/ InitBatch \/ InitWarm) /\ [][NextStream]_vars

SpecCache == (InitCache \/ InitBatch) /\ [][NextCache]_vars

SpecOpenAI == InitOpenAI /\ [][NextOpenAI]_vars

SpecAI == InitAI /\ [][NextAI]_vars

\* the steps of the main flow of control of each worker: everything but the
\* delivery of a signal, the reporter thread and the passing of time
MainFlow ==
    \/ WhisperMain \/ WhisperLoadStart \/ WhisperLoadModel \/ WhisperLoadExcept
    \/ WhisperAnalyze \/ WhisperBackend \/ ReporterStop \/ ReporterJoin
    \/ WhisperFinish \/ WhisperTranscribeExcept \/ WhisperSave \/ WhisperResult
    \/ WhisperReturn \/ WhisperMainExcept \/ WhisperSystemExit
    \/ StreamMain \/ SingleStart \/ LoadCheck \/ LoadModel \/ LoadExcept
    \/ ChunkStart \/ ChunkCall \/ ChunkExcept \/ SingleResult \/ SingleExcept
    \/ BatchStart \/ BatchLoop \/ BatchResult \/ BatchItemExcept \/ BatchDone
    \/ BatchExcept \/ WarmReady \/ WarmShutdown \/ WarmExcept
    \/ StreamReturn \/ StreamCancelled \/ StreamMainExcept
    \/ OpenAIMain \/ OpenAIValidate \/ OpenAITruncate \/ OpenAIExport \/ OpenAIUpload
    \/ OpenAIApiCall \/ OpenAICleanup \/ OpenAISave \/ OpenAIResult \/ OpenAIReturn
    \/ OpenAIValueError \/ OpenAIInterrupted \/ OpenAIMainExcept
    \/ AIMain \/ AIProcess \/ AICreateClient \/ AITitle \/ AITitleCall \/ AISummary
    \/ AISummaryCall \/ AIProcessExcept \/ AISave \/ AIResult \/ AIReturn
    \/ AIMainExcept \/ AIInterrupted

ReporterFlow == ReporterCheck \/ ReporterReport \/ ReporterWake

\* every worker, with a scheduler that lets each runnable thread run, blocking
\* calls that return or raise, and time that passes
\* one model, one device and one length of audio: they choose no path of control
InitLive ==
    /\ Init
    /\ ~cuda
    /\ model_name \in {"tiny", "whisper-1", "gpt-4o"}
    /\ file_size \in {Unreadable, 0, 49152, MAX_FILE_SIZE, 30 * MiB}
    /\ audio_ms \in {0, 60000}

SpecLive ==
    /\ InitLive /\ [][Next]_vars
    /\ WF_vars(MainFlow) /\ WF_vars(ReporterFlow) /\ WF_vars(Tick)

----------------------------------------------------------------------------
(* Reading the output *)

IsChunkLevel(e) == e.type \in {"chunk_result", "chunk_error"}
IsProgress(e) == e.type = "progress"
IsItemMarker(e) == e.type = "progress" /\ e.message = "Processing chunk i/N"

\* how many emitted events have a type in T
TypeCount(T) == Cardinality({n \in DOMAIN out : out[n].type \in T})
ItemMarkerCount == Cardinality({n \in DOMAIN out : IsItemMarker(out[n])})
ChunkLevelEvents == SelectSeq(out, IsChunkLevel)
ProgressEvents == SelectSeq(out, IsProgress)
Exited == pc = "exit"

\* a batch whose model loaded and that ran to the end of batch_transcribe_chunks
\* or left it through its own handler, without an interrupt
BatchReturned ==
    /\ worker = "streaming" /\ command = "batch" /\ chunk_arg = "list"
    /\ Exited /\ exit_code = 0
    /\ LOADED_MODEL # NoModel

FailsInTranscription(info) == info.kind \in {"missing", "bad_audio"}
FailingItems == {k \in DOMAIN chunk_files : chunk_files[k].kind # "ok"}

\* exactly one chunk fails, and it fails inside transcribe_chunk_fast
OneChunkFails ==
    /\ Cardinality(FailingItems) = 1
    /\ \A k \in FailingItems : FailsInTranscription(chunk_files[k])

----------------------------------------------------------------------------
(* C1: in every run of a single-request worker (whisper_worker,             *)
(* whisper_streaming_worker single mode, openai_transcription_worker,       *)
(* ai_worker), on every path, exactly one event of type result, error or    *)
(* cancelled has been emitted when the process exits.                       *)
SingleRequest ==
    worker \in {"whisper", "openai", "ai"} \/ (worker = "streaming" /\ command = "single")

C1_ExactlyOneTerminal ==
    (SingleRequest /\ Exited) => TypeCount({"result", "error", "cancelled"}) = 1

(* C2: in whisper_worker, once ProgressReporter.stop() has returned, on the  *)
(* success path and on the failure path of model.transcribe, the reporter   *)
(* thread emits no further progress event.                                   *)
StopReturned ==
    /\ worker = "whisper" /\ stop_event
    /\ pc \in {"w_finish", "w_transcribe_except", "w_save", "w_result", "w_return",
               "w_main_except"}

C2_NoProgressAfterStop == [][StopReturned => ~ReporterReport]_vars

(* C3: in batch mode, when the model loads and exactly one chunk k of the N  *)
(* fails during transcription, the output holds exactly N-1 chunk_result     *)
(* events, exactly one chunk_error event, carrying chunk k's identifier, and *)
(* ends with the progress event of value 100 that reports batch completion.  *)
C3_BatchOneFailure ==
    (BatchReturned /\ OneChunkFails) =>
        /\ TypeCount({"chunk_result"}) = Len(chunk_files) - 1
        /\ TypeCount({"chunk_error"}) = 1
        /\ \A k \in FailingItems :
              \E n \in DOMAIN out : out[n] = emit_chunk_error(ChunkIdOf(chunk_files[k], k - 1))
        /\ out[Len(out)] = emit_progress(100, "Batch processing complete")

C3_Witness ==
    /\ BatchReturned /\ OneChunkFails
    /\ Len(chunk_files) = 2
    /\ FailingItems = {1}

(* C4: in batch mode, a failure raised while handling item j of the list (a  *)
(* record with no "file" field and a missing audio file included) is reported*)
(* as a chunk_error event carrying item j's identifier, and every later item *)
(* is still processed: the j-th chunk-level event is that chunk_error and    *)
(* there are as many chunk-level events as items.                            *)
C4_ItemFailureIsolated ==
    BatchReturned =>
        \A k \in FailingItems :
            /\ Len(ChunkLevelEvents) = Len(chunk_files)
            /\ ChunkLevelEvents[k] = emit_chunk_error(ChunkIdOf(chunk_files[k], k - 1))

(* C5: in batch mode, a backend failure on a chunk is reported only as a     *)
(* chunk_error event: while the batch runs on a list whose only failures are *)
(* backend failures, no event of type error is emitted.                      *)
OnlyBackendFailures == \A k \in DOMAIN chunk_files : chunk_files[k].kind \in {"ok", "bad_audio"}

C5_NoErrorEventForChunk ==
    (/\ worker = "streaming" /\ command = "batch" /\ chunk_arg = "list"
     /\ LOADED_MODEL # NoModel /\ OnlyBackendFailures)
        => TypeCount({"error"}) = 0

(* C6: in batch mode the chunk-level events come in the order of the input   *)
(* list, one per item, and the events of item k all precede those of item    *)
(* k+1: a per-item progress marker is emitted only when every earlier item   *)
(* has its chunk-level event, and a returned batch has exactly one           *)
(* chunk-level event per item, the k-th carrying the k-th item's identifier. *)
C6_ChunkEventsInInputOrder ==
    (worker = "streaming" /\ command = "batch") =>
        /\ ItemMarkerCount - Len(ChunkLevelEvents) \in {0, 1}
        /\ BatchReturned =>
              /\ Len(ChunkLevelEvents) = Len(chunk_files)
              /\ \A k \in DOMAIN chunk_files :
                    ChunkLevelEvents[k].chunk_id = ChunkIdOf(chunk_files[k], k - 1)

(* C7: within one request the values of the emitted progress events never    *)
(* decrease: each is at least the highest value emitted before it.           *)
C7_ProgressNonDecreasing ==
    \A m, n \in DOMAIN ProgressEvents :
        m < n => ProgressEvents[m].progress <= ProgressEvents[n].progress

(* C8: every emitted progress event carries a value in 0..100, in every      *)
(* worker and on every input (the reporter's interpolated value and the      *)
(* batch's per-item value included), and a batch of no items runs to its     *)
(* completion event: no error event, no value out of range.                  *)
C8_ProgressInRange ==
    /\ \A n \in DOMAIN out : IsProgress(out[n]) => out[n].progress \in 0..100
    /\ (BatchReturned /\ Len(chunk_files) = 0) =>
          /\ TypeCount({"error"}) = 0
          /\ out[Len(out)] = emit_progress(100, "Batch processing complete")

C8_Witness ==
    /\ worker = "whisper"
    /\ \E n \in DOMAIN out :
          /\ out[n].message = "Processing audio"
          /\ out[n].progress > 30 /\ out[n].progress < 85

(* C9: Size Guard, for every input file of size at most the hard limit of 25 *)
(* MiB (the limit itself included): the Trimmer is never invoked, no         *)
(* temporary file is created or deleted, and the file handed to the backend  *)
(* is the original.                                                          *)
C9_WithinLimitUntouched ==
    (worker = "openai" /\ file_size # Unreadable /\ file_size <= MAX_FILE_SIZE) =>
        /\ truncate_calls = 0
        /\ tmp_file = "none"
        /\ transcription_file = "original"
        /\ uploaded \in {"none", "original"}

C9_Witness ==
    /\ worker = "openai" /\ file_size = MAX_FILE_SIZE
    /\ uploaded = "original" /\ Exited /\ exit_code = 0

(* C10: Size Guard, for every input file larger than the hard limit: the     *)
(* substitute handed to the backend is no larger than the target of 24 MiB,  *)
(* whatever the original's bitrate and duration.                             *)
C10_SubstituteWithinTarget ==
    (worker = "openai" /\ uploaded = "temp") => truncated_size <= TARGET_FILE_SIZE

(* C11: Trimmer, for every input over the hard limit: the kept length is     *)
(* floor(originalDuration * targetBytes / originalSizeBytes), it is          *)
(* non-negative and it is strictly less than the original length.            *)
RECURSIVE MulDivMod(_, _, _)
\* <<quotient, remainder>> of a * b divided by c, one bit of a at a time, so
\* that no intermediate value leaves the 32-bit range
MulDivMod(a, b, c) ==
    IF a = 0 THEN <<0, 0>>
    ELSE LET half == MulDivMod(a \div 2, b, c)
             t == 2 * half[2] + (a % 2) * b
         IN  <<2 * half[1] + (t \div c), t % c>>

ExactFloor == MulDivMod(audio_ms, TARGET_FILE_SIZE, file_size)[1]

\* the Trimmer has computed the cut and created its temp file
Trimmed == worker = "openai" /\ tmp_file # "none"

C11_KeepDurationIsFloor ==
    Trimmed =>
        /\ target_duration = ExactFloor
        /\ target_duration >= 0 /\ target_duration < audio_ms

(* C11, amended: the kept length is int(originalDuration * ratio) with the   *)
(* ratio targetBytes / originalSizeBytes and the product both rounded to     *)
(* double precision: it is the exact floor or one millisecond less, it is    *)
(* non-negative and it is strictly less than the original length.            *)
C11_KeepDurationNearFloor ==
    Trimmed =>
        /\ target_duration \in {ExactFloor - 1, ExactFloor}
        /\ target_duration >= 0 /\ target_duration < audio_ms

C11_Witness ==
    /\ Trimmed /\ uploaded = "temp"
    /\ file_size = 26214540 /\ audio_ms = 2184545
    /\ target_duration = 2097151

(* C12: when Size Guard produced a substitute file, the temp file no longer  *)
(* exists when the request completes, on every exit path after truncation:   *)
(* every way out of the upload and of the backend call (success, each        *)
(* backend failure, a failing open, an interrupt during the call) goes       *)
(* through the cleanup, the cleanup deletes the file, and a request that     *)
(* ends with a result or a failure has no temp file left. (os.unlink itself  *)
(* is taken to succeed.)                                                     *)
SubstituteMade == worker = "openai" /\ temp_file_to_cleanup /\ unlink_ok

TrimmerFailed == worker = "openai" /\ raised = "Failed to truncate audio file"

C13_TrimmerFailureCleansUp ==
    (TrimmerFailed /\ Exited) =>
        /\ truncate_calls = 1 /\ uploaded = "none" /\ exit_code = 1
        /\ tmp_file # "exists"

(* C14: Model Cache. Over any sequence of completed acquire calls in one     *)
(* process in which no load failed, the backend is loaded once per run of    *)
(* consecutive requests for the same identifier: an acquire whose identifier *)
(* equals the previous one is a hit and returns the same handle, an acquire  *)
(* with a different identifier loads exactly once, and every returned handle *)
(* is a model of the requested identifier. A batch loads at most once and    *)
(* every item is transcribed with the handle that this acquire returned.     *)
StartsRun(k) == k = 1 \/ acquired[k].name # acquired[k - 1].name
BatchItemPositions ==
    {"batch_loop", "chunk_start", "chunk_call", "chunk_except", "batch_result",
     "batch_item_except", "batch_done"}

C14_LoadedOncePerRun ==
    /\ (command = "acquire" /\ pc = "acquire_done"
            /\ \A k \in DOMAIN acquired : acquired[k].handle # NoModel) =>
          /\ load_calls = Cardinality({k \in DOMAIN acquired : StartsRun(k)})
          /\ \A k \in DOMAIN acquired :
                /\ acquired[k].handle.name = acquired[k].name
                /\ ~StartsRun(k) => acquired[k].handle = acquired[k - 1].handle
                /\ (k > 1 /\ StartsRun(k)) => acquired[k].handle.id = acquired[k - 1].handle.id + 1
    /\ command = "batch" =>
          /\ load_calls <= 1
          /\ pc \in BatchItemPositions =>
                (load_calls = 1 /\ model = LOADED_MODEL /\ model.name = model_name)

C14_Witness ==
    /\ command = "acquire" /\ pc = "acquire_done"
    /\ Len(acquired) = 3
    /\ acquired[1].name = "tiny" /\ acquired[2].name = "tiny" /\ acquired[3].name = "turbo"
    /\ \A k \in DOMAIN acquired : acquired[k].handle # NoModel
    /\ load_calls = 2

(* C15: warm mode. The model is loaded once and model_ready is emitted once; *)
(* while the worker idles and no interrupt arrives it emits nothing and does *)
(* not exit; when one interrupt arrives while it idles, model_shutdown is    *)
(* the next and the last event and the process then exits.                   *)
WarmMode == worker = "streaming" /\ command = "warm"

C15_WarmMode ==
    /\ [](WarmMode =>
            /\ load_calls <= 1 /\ TypeCount({"model_ready"}) <= 1
            /\ pc = "warm_idle" =>
                  (/\ load_calls = 1 /\ exit_code = Running
                   /\ out[Len(out)] = emit_model_ready)
            /\ (Exited /\ sigints = 1 /\ TypeCount({"model_ready"}) = 1) =>
                  (/\ out[Len(out)] = emit_model_shutdown
                   /\ out[Len(out) - 1] = emit_model_ready))
    /\ [][(WarmMode /\ pc = "warm_idle") =>
             \/ UNCHANGED vars
             \/ StreamInterrupt /\ pc' = "warm_shutdown"]_vars
    /\ [][(WarmMode /\ pc \in {"warm_shutdown", "main_return"} /\ ~StreamInterrupt) =>
             (WarmShutdown \/ (StreamReturn /\ out' = out))]_vars

C15_Witness ==
    /\ WarmMode /\ Exited /\ sigints = 1
    /\ out[Len(out)] = emit_model_shutdown
    /\ TypeCount({"model_ready"}) = 1

(* C16: cancellation in whisper_worker. When SIGTERM or SIGINT has arrived,  *)
(* at whatever point of the request, the cancellation error is the last      *)
(* event of the output (no progress event of the reporter follows it), it is *)
(* the only terminal event of the request, and the process exits with a      *)
(* non-zero code.                                                            *)
C16_CancellationIsFinal ==
    (worker = "whisper" /\ shutdown_requested) =>
        /\ out[Len(out)] = emit_error("Transcription cancelled by signal")
        /\ TypeCount({"result", "error", "cancelled"}) = 1
        /\ Exited => exit_code = 1

(* C17: for every worker and mode, the exit code is non-zero when the        *)
(* request ended in a failure (its last event is an error event) and zero    *)
(* when no error or cancellation was reported.                               *)
C17_ExitCodeMatchesOutcome ==
    (Exited /\ command # "acquire") =>
        /\ out[Len(out)].type = "error" => exit_code # 0
        /\ exit_code # 0 => TypeCount({"error", "cancelled"}) >= 1

(* C18: every run of a single-request worker, given that every blocking call *)
(* returns or raises and every thread gets to run, eventually exits, and has *)
(* emitted at least one terminal event (result, error or cancelled) when it  *)
(* does: no run ends silently.                                               *)
C18_EventuallyTerminal ==
    /\ SingleRequest => <>Exited
    /\ []((SingleRequest /\ Exited) => TypeCount({"result", "error", "cancelled"}) >= 1)

C18_Witness ==
    /\ worker = "whisper" /\ Exited /\ exit_code = 1
    /\ ~shutdown_requested /\ output
    /\ TypeCount({"error"}) = 1 /\ out[Len(out)] = emit_error("Unexpected error")

(* C19: in ai_worker, a transcript whose text is empty or shorter than 10    *)
(* characters once stripped ends the run with an error event and a non-zero  *)
(* exit code; process_transcript is not entered, no client is created and no *)
(* title or summary is generated.                                            *)
C19_ShortTranscriptRejected ==
    (worker = "ai" /\ transcript \in {"empty", "short"}) =>
        /\ ~llm /\ title = "" /\ summary = ""
        /\ pc \notin {"ai_process", "ai_client", "ai_title", "ai_title_call", "ai_summary",
                       "ai_summary_call", "ai_process_except"}
        /\ Exited =>
              (/\ exit_code = 1 /\ out[Len(out)].type = "error"
               /\ TypeCount({"result"}) = 0 /\ TypeCount({"error"}) = 1)

C19_Witness ==
    /\ worker = "ai" /\ transcript = "empty" /\ api_key
    /\ Exited /\ out[Len(out)] = emit_error("Unexpected error")

(* C20: in the transcription workers, a missing input file or one of an      *)
(* unsupported format ends the run with a terminal error event and a         *)
(* non-zero exit code, and neither the Trimmer nor the backend upload has    *)
(* been invoked for it.                                                      *)
InputFileRejected ==
    \/ worker = "openai" /\ audio \in {"missing", "unsupported"}
    \/ worker = "whisper" /\ audio = "missing"
    \/ worker = "streaming" /\ command = "single" /\ audio = "missing" /\ LOADED_MODEL # NoModel

C20_InputErrorSurfaced ==
    (InputFileRejected /\ Exited) =>
        /\ exit_code # 0
        /\ TypeCount({"error", "cancelled"}) >= 1 /\ TypeCount({"result"}) = 0
        /\ truncate_calls = 0 /\ uploaded = "none"

(* C21: for both backend variants, a failure raised by the backend call is   *)
(* converted into one of the defined error kinds before it reaches main: the *)
(* exception that main's handler receives is never the raw exception of the  *)
(* backend.                                                                  *)
AtMainHandler == pc \in {"w_main_except", "oa_value_error", "oa_main_except"}

C21_BackendFailuresConverted ==
    AtMainHandler => raised \notin (RawBackendErrors \cup LocalBackendErrors)

(* C22: outside the per-item boundary of batch mode a failure is surfaced to *)
(* the caller: once title generation, summary generation, output saving,     *)
(* single-chunk transcription or warm-mode loading has failed, the request   *)
(* ends in failure (a non-zero exit code, an error or cancelled event last)  *)
(* and no result event is emitted.                                           *)
Reported(m) == \E n \in DOMAIN out : out[n] = emit_error(m)

ComponentFailed ==
    \/ worker = "ai" /\ (title = "Untitled Recording" \/ summary = "Summary generation failed.")
    \/ worker = "openai" /\ Reported("Failed to save output file")
    \/ worker = "streaming" /\ command = "single" /\ Reported("Chunk transcription failed")
    \/ worker = "streaming" /\ command = "warm" /\ Reported("Failed to load model")

C22_FailuresSurfaced ==
    (ComponentFailed /\ Exited) =>
        /\ exit_code # 0
        /\ out[Len(out)].type \in {"error", "cancelled"}
        /\ TypeCount({"result"}) = 0

(* C23: when an output path is configured, the output file is written at    *)
(* most once per run, only in a run whose terminal event is result, in every *)
(* run that ends with result, and then it holds the whole payload.           *)
TerminalPositions == {n \in DOMAIN out : out[n].type \in {"result", "error", "cancelled"}}

LastTerminalType ==
    IF TerminalPositions = {} THEN "none"
    ELSE out[CHOOSE n \in TerminalPositions : \A k \in TerminalPositions : k <= n].type

C23_OutputMirrorsResult ==
    (output /\ Exited) =>
        /\ save_calls <= 1
        /\ output_file # "absent" => LastTerminalType = "result"
        /\ LastTerminalType = "result" => output_file = "complete"


----------------------------------------------------------------------------
(* The segment adapters: convert_segments_format of the remote worker and the
   extraction loop of the two local workers, applied to the segment records
   of a backend response.  A record carries a subset of its fields; times are
   in seconds, avg_logprob in quarters. *)

SegmentFields == {"start", "end", "text", "avg_logprob"}

\* what a field holds when the backend sets it
FieldValues(f) ==
    CASE f = "start" -> {0, 2}
      [] f = "end" -> {0, 2}
      [] f = "text" -> {"", " hi "}
      [] f = "avg_logprob" -> {0 - 1}

\* the slot of a field the record does not carry (never read)
Unset(f) == IF f = "text" THEN "" ELSE 0

SegmentRecords ==
    {r \in [absent : SUBSET SegmentFields, start : {0, 2}, end : {0, 2},
            text : {"", " hi "}, avg_logprob : {0 - 1, 0}] :
        \A f \in SegmentFields :
            IF f \in r.absent THEN r[f] = Unset(f) ELSE r[f] \in FieldValues(f)}

MaxSegments == 2

\* getattr(segment, name, default) and segment.get(name, default)
GetAttr(segment, name, default) ==
    IF name \in segment.absent THEN default ELSE segment[name]

\* str.strip()
Strip(text) == IF text = " hi " THEN "hi" ELSE text

\* the dictionary built for one record by convert_segments_format; the fields
\* id, seek, tokens, temperature, compression_ratio and no_speech_prob are
\* read the same way and are left out
Converted(segment) ==
    [start |-> GetAttr(segment, "start", 0),
     end |-> GetAttr(segment, "end", 0),
     text |-> GetAttr(segment, "text", ""),
     avg_logprob |-> GetAttr(segment, "avg_logprob", 0)]

\* a converter that drops the records that lack a field
HasAllFields(segment) == segment.absent = {}

ConvertComplete(openai_segments) ==
    LET kept == SelectSeq(openai_segments, HasAllFields)
    IN  [n \in 1..Len(kept) |-> Converted(kept[n])]

\* reading the attributes of a record does not raise, so the except branch of
\* the loop (which skips the record) is not taken; the debug line that formats
\* the times runs after the append
convert_segments_format(openai_segments) ==
    [n \in 1..Len(openai_segments) |-> Converted(openai_segments[n])]

\* the dictionary the local workers build for one record
Extracted(segment) ==
    [start |-> GetAttr(segment, "start", 0),
     end |-> GetAttr(segment, "end", 0),
     text |-> Strip(GetAttr(segment, "text", ""))]

ExtractSegments(result_segments) ==
    [n \in 1..Len(result_segments) |-> Extracted(result_segments[n])]

InitSegments ==
    /\ InitCommon
    /\ worker \in {"openai", "whisper", "streaming"} /\ command = "convert"
    /\ result_long = FALSE
    /\ has_segments \in BOOLEAN
    /\ response \in (IF has_segments THEN SeqsUpTo(SegmentRecords, MaxSegments) ELSE {<<>>})
    /\ model_name = "tiny" /\ cuda = FALSE
    /\ audio = "ok"
    /\ NoBatchArgs /\ NoRemoteArgs
    /\ output = FALSE /\ file_size = 0

AdapterFrame == <<out, exit_code, inputs, streamVars, whisperVars, openaiVars, aiVars,
                  diskVars, channelVars>>

RemoteConvert ==
    /\ worker = "openai" /\ command = "convert" /\ pc = "main"
    /\ segments' = (IF has_segments /\ response # <<>>
                     THEN convert_segments_format(response) ELSE <<>>)
    /\ pc' = "converted"
    /\ UNCHANGED <<has_segments, response, confidence, AdapterFrame>>

LocalExtract ==
    /\ worker \in {"whisper", "streaming"} /\ command = "convert" /\ pc = "main"
    /\ segments' = (IF has_segments THEN ExtractSegments(response) ELSE <<>>)
    /\ pc' = "converted"
    /\ UNCHANGED <<has_segments, response, confidence, AdapterFrame>>

NextSegments == RemoteConvert \/ LocalExtract

SpecSegments == InitSegments /\ [][NextSegments]_vars


----------------------------------------------------------------------------
(* calculate_confidence of the streaming worker, applied to the result of a
   backend call.  avg_logprob is in quarters, so every sum below is exact in
   binary floating point; the value returned is the float nearest to
   num / den. *)

LogProbs == {0 - 6, 0 - 2, 0 - 1, 0, 2}

ScoredRecords ==
    {[absent |-> {}, start |-> 0, end |-> 2, text |-> " hi ", avg_logprob |-> p] :
        p \in LogProbs}
    \cup {[absent |-> {"avg_logprob"}, start |-> 0, end |-> 2, text |-> " hi ",
           avg_logprob |-> 0]}

MaxScored == 3

Min(a, b) == IF a <= b THEN a ELSE b
Max(a, b) == IF a >= b THEN a ELSE b

\* min(1.0, max(0.0, segment["avg_logprob"] + 1.0)), in quarters
SegmentConfidence(segment) == Min(4, Max(0, segment.avg_logprob + 4))

\* the loop of calculate_confidence over the records from position n on, with
\* the two accumulators it carries
RECURSIVE ConfidenceLoop(_, _, _, _)
ConfidenceLoop(result_segments, n, total_confidence, segment_count) ==
    IF n > Len(result_segments)
    THEN [total |-> total_confidence, count |-> segment_count]
    ELSE IF "avg_logprob" \in result_segments[n].absent
    THEN ConfidenceLoop(result_segments, n + 1, total_confidence, segment_count)
    ELSE ConfidenceLoop(result_segments, n + 1,
                        total_confidence + SegmentConfidence(result_segments[n]),
                        segment_count + 1)

\* a variant that averages over every record of the list
ConfidenceOverAll(present, result_segments) ==
    IF ~present \/ result_segments = <<>> THEN [num |-> 0, den |-> 1]
    ELSE [num |-> ConfidenceLoop(result_segments, 1, 0, 0).total,
          den |-> 4 * Len(result_segments)]

calculate_confidence(present, result_segments) ==
    IF ~present \/ result_segments = <<>> THEN [num |-> 0, den |-> 1]
    ELSE LET sums == ConfidenceLoop(result_segments, 1, 0, 0)
         IN  IF sums.count > 0 THEN [num |-> sums.total, den |-> 4 * sums.count]
             ELSE [num |-> 0, den |-> 1]

InitConfidence ==
    /\ InitCommon
    /\ worker = "streaming" /\ command = "confidence"
    /\ result_long = FALSE
    /\ has_segments \in BOOLEAN
    /\ response \in (IF has_segments THEN SeqsUpTo(ScoredRecords, MaxScored) ELSE {<<>>})
    /\ model_name = "tiny" /\ cuda = FALSE
    /\ audio = "ok"
    /\ NoBatchArgs /\ NoRemoteArgs
    /\ output = FALSE /\ file_size = 0

Score ==
    /\ worker = "streaming" /\ command = "confidence" /\ pc = "main"
    /\ confidence' = calculate_confidence(has_segments, response)
    /\ pc' = "scored"
    /\ UNCHANGED <<has_segments, response, segments, AdapterFrame>>

SpecConfidence == InitConfidence /\ [][Score]_vars

----------------------------------------------------------------------------
(* emit_message called by two threads of whisper_worker on one standard
   output.  print(text, flush=True) writes the text, then the newline, then
   flushes.  The text layer of the stream holds what is written in a pending
   chunk of 8192 bytes: a line that fits is appended whole, text and newline,
   without the thread giving up the interpreter; a text that exceeds the chunk
   is passed on to the file first, and while the file is written the other
   thread may run, before the newline is written.  Progress lines are short;
   the result line grows with the transcript. *)

Newline == Message("newline", NoValue, "", NoId)

\* what the main flow emits once the reporter has been told to stop:
\* transcribe_audio, lines 175 and 187, and main, lines 251-256
ClosingEvents ==
    <<emit_progress(85, "Processing transcription results..."),
      emit_progress(95, "Transcription complete"),
      emit_progress(100, "Complete"),
      emit_result>>

MaxTicks == 3

InitEmit ==
    /\ InitCommon
    /\ has_segments = FALSE /\ response = <<>>
    /\ result_long \in BOOLEAN
    /\ worker = "whisper" /\ command = "emit"
    /\ model_name = "tiny" /\ cuda = FALSE
    /\ audio = "ok"
    /\ NoBatchArgs /\ NoRemoteArgs
    /\ output = FALSE /\ file_size = 0

EmitFrame == <<pc, out, exit_code, inputs, streamVars, whisperVars, openaiVars, aiVars,
               diskVars, adapterVars, result_long>>

ExceedsChunk(event) == event.type = "result" /\ result_long

\* the main flow prints a line that fits the chunk
MainWriteLine ==
    /\ command = "emit" /\ emit_next <= Len(ClosingEvents) /\ "main" \notin unterminated
    /\ ~ExceedsChunk(ClosingEvents[emit_next])
    /\ channel' = channel \o <<ClosingEvents[emit_next], Newline>>
    /\ emit_next' = emit_next + 1
    /\ UNCHANGED <<unterminated, ticks, EmitFrame>>

\* the main flow writes a text that exceeds the chunk
MainWriteText ==
    /\ command = "emit" /\ emit_next <= Len(ClosingEvents) /\ "main" \notin unterminated
    /\ ExceedsChunk(ClosingEvents[emit_next])
    /\ channel' = channel \o <<ClosingEvents[emit_next]>>
    /\ unterminated' = unterminated \cup {"main"}
    /\ UNCHANGED <<emit_next, ticks, EmitFrame>>

\* and then its newline
MainWriteNewline ==
    /\ command = "emit" /\ "main" \in unterminated
    /\ channel' = channel \o <<Newline>>
    /\ unterminated' = unterminated \ {"main"}
    /\ emit_next' = emit_next + 1
    /\ UNCHANGED <<ticks, EmitFrame>>

\* the reporter thread prints one report, lines 116 and 119
ReporterWriteLine ==
    /\ command = "emit" /\ ticks < MaxTicks
    /\ channel' = channel \o <<emit_progress(85, "Processing audio"), Newline>>
    /\ ticks' = ticks + 1
    /\ UNCHANGED <<unterminated, emit_next, EmitFrame>>

NextEmit == MainWriteLine \/ MainWriteText \/ MainWriteNewline \/ ReporterWriteLine

SpecEmit == InitEmit /\ [][NextEmit]_vars

----------------------------------------------------------------------------
\* C24: every segment an adapter returns has 0 <= start <= end, and the
\* returned segments are in non-decreasing order of start, whatever records
\* the backend produced
C24_SegmentsWellFormed ==
    pc = "converted" =>
        /\ \A n \in 1..Len(segments) :
               0 <= segments[n].start /\ segments[n].start <= segments[n].end
        /\ \A n \in 1..Len(segments) : \A m \in n..Len(segments) :
               segments[n].start <= segments[m].start

C24_IntervalsWellFormed ==
    pc = "converted" =>
        \A n \in 1..Len(segments) : segments[n].start <= segments[n].end

C24_StartsOrdered ==
    pc = "converted" =>
        \A n \in 1..Len(segments) : \A m \in n..Len(segments) :
            segments[n].start <= segments[m].start

C24_RemoteWellFormed == worker = "openai" => C24_SegmentsWellFormed

C24_LocalWellFormed == worker # "openai" => C24_SegmentsWellFormed


----------------------------------------------------------------------------
----------------------------------------------------------------------------
\* the records of the response that carry avg_logprob
Carriers == {n \in 1..Len(response) : "avg_logprob" \notin response[n].absent}

\* avg_logprob + 1.0 clamped into [0, 1], in quarters
Clamped(p) == IF p + 4 < 0 THEN 0 ELSE IF p + 4 > 4 THEN 4 ELSE p + 4

RECURSIVE ClampedSum(_)
ClampedSum(positions) ==
    IF positions = {} THEN 0
    ELSE LET n == CHOOSE k \in positions : TRUE
         IN  Clamped(response[n].avg_logprob) + ClampedSum(positions \ {n})

\* C30: calculate_confidence returns the mean of clamp(avg_logprob + 1.0, 0, 1)
\* over the segments that carry avg_logprob, and 0.0 when the list is absent
\* or empty or no segment carries it; the result is within [0, 1]
C30_ConfidenceIsClampedMean ==
    pc = "scored" =>
        /\ confidence.den > 0
        /\ 0 <= confidence.num /\ confidence.num <= confidence.den
        /\ IF ~has_segments \/ Carriers = {}
           THEN confidence.num = 0
           ELSE confidence.num * 4 * Cardinality(Carriers)
                    = ClampedSum(Carriers) * confidence.den

\* three records: one without avg_logprob, one clamped to 0 and one at 0.75;
\* the mean over the two carriers is 0.375
C30_Witness ==
    /\ pc = "scored" /\ has_segments /\ Len(response) = 3
    /\ "avg_logprob" \in response[1].absent
    /\ Carriers = {2, 3}
    /\ response[2].avg_logprob = 0 - 6 /\ response[3].avg_logprob = 0 - 1
    /\ confidence = [num |-> 3, den |-> 8]


----------------------------------------------------------------------------
TruncationAnnounced ==
    \E n \in DOMAIN out : out[n] = emit_progress(12, "File too large, truncating to 24MB...")

\* C27: whenever the Size Guard truncates, a progress event that announces
\* "file too large, truncating" has been emitted, before the Trimmer runs and
\* so before the backend is called
C27_TruncationIsAnnounced ==
    (pc = "oa_truncate" \/ truncate_calls > 0 \/ transcription_file = "temp"
        \/ uploaded = "temp") => TruncationAnnounced

\* the backend has been called with the truncated file
C27_Witness ==
    /\ worker = "openai" /\ uploaded = "temp" /\ truncate_calls = 1
    /\ NeedsTruncation(file_size) /\ TruncationAnnounced


----------------------------------------------------------------------------
\* the time, in whole seconds since the reporter was created, at which the
\* last report was made
LastElapsed == clock - start_time

LastReported == out[Len(out)].progress

\* floor(55 * elapsed / estimate), the estimate being duration / speed_factor
ExactShare(elapsed) ==
    (55 * elapsed * 16384 * SpeedFactor10(model_name)) \div (10 * AudioDuration16k(file_size))

ReportsNonDecreasing ==
    \A n \in 1..Len(out) : \A m \in n..Len(out) : out[n].progress <= out[m].progress

\* C28: a tick before the estimate reports 30 + floor(55 * elapsed / estimate),
\* which lies in 30..84; a tick at or after the estimate reports exactly 85;
\* the values the reporter emits never decrease
C28_TickIsExactFloor ==
    (command = "report" /\ out # <<>>) =>
        /\ IF BeforeEstimate(LastElapsed)
           THEN /\ LastReported = 30 + ExactShare(LastElapsed)
                /\ LastReported \in 30..84
           ELSE LastReported = 85
        /\ ReportsNonDecreasing

\* C28, amended: before the estimate the value is 30 + floor(55 * elapsed /
\* estimate) or one less than that when the floating-point product falls just
\* below a whole number, and lies in 30..84; at or after the estimate it is
\* exactly 85; the values never decrease
C28_TickNearFloor ==
    (command = "report" /\ out # <<>>) =>
        /\ IF BeforeEstimate(LastElapsed)
           THEN /\ LastReported \in {30 + ExactShare(LastElapsed),
                                     30 + ExactShare(LastElapsed) - 1}
                /\ LastReported \in 30..84
           ELSE LastReported = 85
        /\ ReportsNonDecreasing

\* three reports for a 27.5 s file and the tiny model (estimate 5.5 s): at 1 s
\* (40), at 3 s (59, where the exact value is 60) and at 4 s (70)
C28_Witness ==
    /\ command = "report" /\ model_name = "tiny" /\ file_size = 450560
    /\ Len(out) = 3 /\ LastElapsed = 4
    /\ out[1].progress = 40 /\ out[2].progress = 59 /\ out[3].progress = 70

\* a report at or after the estimate
C28_WitnessFinalizing ==
    /\ command = "report" /\ out # <<>> /\ ~BeforeEstimate(LastElapsed)
    /\ LastReported = 85


----------------------------------------------------------------------------
\* What a run of whisper_worker ends with, as a function of what does not
\* belong to the Progress Estimator: the audio argument (which fixes what the
\* backend does), whether the model loaded, whether the output file could be
\* written, and whether a signal arrived.  The model name, the file size, the
\* clock and the position of the reporter thread do not occur in it.
WhisperOutcome ==
    IF \/ shutdown_requested
       \/ Reported("Failed to load model")
       \/ audio # "ok"
       \/ save_calls > 0 /\ output_file # "complete"
    THEN <<"error", 1>>
    ELSE <<"result", 0>>

\* C26: the Progress Estimator never influences the outcome: the terminal
\* event and the exit code of a run of whisper_worker are determined by the
\* inputs and backend behaviour outside the estimator, so two runs that differ
\* only in estimated duration, speed factor (an unknown model name included)
\* or tick timing end the same way
C26_EstimatorDoesNotDecide ==
    (worker = "whisper" /\ command = "none" /\ Exited) =>
        <<LastTerminalType, exit_code>> = WhisperOutcome

\* a run with a model name the table does not list and a file whose size
\* cannot be read, in which the reporter ticked after a second had passed, and
\* that ended with a result
C26_Witness ==
    /\ worker = "whisper" /\ command = "none" /\ Exited
    /\ model_name = "custom" /\ file_size = Unreadable
    /\ \E n \in DOMAIN out : out[n] = emit_progress(31, "Processing audio")
    /\ LastTerminalType = "result" /\ exit_code = 0


----------------------------------------------------------------------------
\* C29: when the reporter thread and the main flow emit at overlapping times,
\* every event is on the output as one complete line with exactly one JSON
\* object: every newline ends a line that holds the text of exactly one event,
\* so no line holds two texts and no line is empty
C29_LinesAreWhole ==
    \A n \in DOMAIN channel :
        channel[n] = Newline =>
            /\ n > 1 /\ channel[n - 1] # Newline
            /\ n = 2 \/ channel[n - 2] = Newline

C29_NoEmptyLine ==
    \A n \in DOMAIN channel :
        channel[n] = Newline => (n > 1 /\ channel[n - 1] # Newline)

\* with lines that all fit the chunk the output is whole
C29_ShortLinesAreWhole == ~result_long => C29_LinesAreWhole


----------------------------------------------------------------------------
\* the acquires of the client that returned a handle, and the last of them
\* before the k-th acquire (0 when there is none)
Hits == {k \in DOMAIN acquired : acquired[k].handle # NoModel}

LastHitBefore(k) ==
    IF \E j \in Hits : j < k
    THEN CHOOSE j \in Hits : j < k /\ \A h \in Hits : h < k => h <= j
    ELSE 0

----------------------------------------------------------------------------
\* C32: in warm mode a model_shutdown event is emitted only after a
\* model_ready event of the same run: an interrupt that arrives while the
\* model is still loading produces no model_shutdown
C32_ShutdownOnlyAfterReady ==
    WarmMode =>
        \A n \in DOMAIN out :
            out[n] = emit_model_shutdown =>
                \E k \in 1..(n - 1) : out[k] = emit_model_ready


----------------------------------------------------------------------------
\* a failure of client creation, validation, the size check, the Trimmer or
\* the backend call is on its way to main, or has been handled by it
RemoteFailure == worker = "openai" /\ raised \notin {"none", "KeyboardInterrupt"}

StreamRequestInterrupted ==
    worker = "streaming" /\ command \in {"single", "batch"} /\ sigints > 0

\* C33: in openai_transcription_worker a failure raised during client
\* creation, file validation, the size check, truncation or the backend call
\* yields exactly one error event, no result event and exit code 1; an
\* interrupt during a single or batch request of the streaming worker yields
\* exactly one cancelled event, no chunk or result event after it, and exit
\* code 1
C33_FailureAndInterruptOutcomes ==
    /\ RemoteFailure =>
          /\ TypeCount({"result"}) = 0
          /\ TypeCount({"error"}) <= 1
          /\ Exited => (TypeCount({"error"}) = 1 /\ exit_code = 1)
    /\ StreamRequestInterrupted =>
          /\ TypeCount({"cancelled"}) <= 1
          /\ \A n \in DOMAIN out : out[n] = emit_cancelled => n = Len(out)
          /\ Exited => (TypeCount({"cancelled"}) = 1 /\ exit_code = 1)

\* the backend call on a truncated file was refused for its rate limit
C33_Witness ==
    /\ RemoteFailure /\ Exited /\ raised = "Rate limit exceeded" /\ uploaded = "temp"
    /\ out[Len(out)] = emit_error("Rate limit exceeded") /\ exit_code = 1

\* a batch interrupted after its first chunk result
C33_WitnessInterrupted ==
    /\ StreamRequestInterrupted /\ command = "batch" /\ Exited
    /\ TypeCount({"chunk_result"}) = 1 /\ Len(chunk_files) = 2
    /\ out[Len(out)] = emit_cancelled /\ exit_code = 1

====
